---- MODULE Spec2Model ----
(***************************************************************************)
(* Budget Agent: the cost-classification-and-aggregation engine of         *)
(* backend/tools.py and backend/server.py.                                 *)
(*                                                                         *)
(* JSON values whose Python type the code inspects (isinstance, truth      *)
(* value) are tagged records [k |-> <type>, v |-> <value>]; dicts the code *)
(* only reads with .get are functions from key to value, an absent key     *)
(* being a key outside the DOMAIN.  Text is a TLA+ string.                 *)
(***************************************************************************)
EXTENDS Integers, Sequences, FiniteSets, TLC

VARIABLES
    dir,    \* the data directory get_data_dir() points at
    op,     \* the operation that ran last
    arg,    \* the argument it was called with
    out,    \* what it returned (or the exception it raised)
    agent,  \* the global _agent of server.py: "None", or the agent constructed
    chat    \* the chat requests in flight, each with its position and locals

vars == <<dir, op, arg, out, agent, chat>>

----------------------------------------------------------------------------
(* Python values                                                           *)

EmptyDict == <<>>

JNull == [k |-> "null"]
JStr(s) == [k |-> "str", v |-> s]
JInt(n) == [k |-> "int", v |-> n]
JList(l) == [k |-> "list", v |-> l]
JDict(d) == [k |-> "dict", v |-> d]

\* dict.get(key, default)
Get(d, key, default) == IF key \in DOMAIN d THEN d[key] ELSE default

\* a dict holding the one key, or no key at all when the value set is empty
Field(key, vals) == {key :> v : v \in vals}
Optional(key, vals) == {EmptyDict} \cup Field(key, vals)

Returned(v) == [ok |-> TRUE, v |-> v]
Raised(e) == [ok |-> FALSE, exc |-> e]

Max2(a, b) == IF a > b THEN a ELSE b

\* a data directory that does not exist; no call made yet
NoDir == [exists |-> FALSE, files |-> <<>>]
Nothing == [ok |-> TRUE, v |-> "nothing"]

----------------------------------------------------------------------------
(* str.lower() and the substring test `kw in content`                      *)

UpperAlpha == "ABCDEFGHIJKLMNOPQRSTUVWXYZ"
LowerAlpha == "abcdefghijklmnopqrstuvwxyz"

LowerChar(c) ==
    IF \E i \in 1..Len(UpperAlpha) : SubSeq(UpperAlpha, i, i) = c
    THEN LET i == CHOOSE j \in 1..Len(UpperAlpha) : SubSeq(UpperAlpha, j, j) = c
         IN  SubSeq(LowerAlpha, i, i)
    ELSE c

RECURSIVE lower(_)
lower(s) ==
    IF Len(s) = 0 THEN ""
    ELSE LowerChar(SubSeq(s, 1, 1)) \o lower(SubSeq(s, 2, Len(s)))

\* kw in content
In(kw, content) ==
    \E i \in 1..(Len(content) - Len(kw) + 1) :
        SubSeq(content, i, i + Len(kw) - 1) = kw

\* any(kw in content for kw in kws)
any(kws, content) == \E n \in 1..Len(kws) : In(kws[n], content)

----------------------------------------------------------------------------
(* classify_message (tools.py)                                             *)

HeartbeatKw == <<"heartbeat", "heartbeat_ok", "health check", "systems nominal",
                 "all systems", "routine check">>
WhatsappKw == <<"whatsapp", "gateway disconnect", "reconnect", "status 428",
                "connection lost", "reconectando", "desconect">>
MemoryKw == <<"memory resync", "soul.md", "loading conversation",
              "context reload", "compaction", "summarizing history">>
EmailKw == <<"himalaya", "inbox", "email scan", "checking email",
             "new emails", "correo", "mail check">>
CostReportKw == <<"cost report", "session cost", "daily usage", "token usage",
                  "spending report", "costo de sesion">>
CronKw == <<"cron", "scheduled", "automated task", "periodic">>

\* what one block of a list content adds to the text
BlockText(block) ==
    IF block.k = "dict" /\ "type" \in DOMAIN block.v /\ block.v["type"] = "text"
    THEN lower(Get(block.v, "text", "")) \o " "
    ELSE IF block.k = "dict" /\ "type" \in DOMAIN block.v /\ block.v["type"] = "thinking"
    THEN lower(Get(block.v, "thinking", "")) \o " "
    ELSE IF block.k = "str"
    THEN lower(block.v) \o " "
    ELSE ""

RECURSIVE BlocksText(_)
BlocksText(blocks) ==
    IF Len(blocks) = 0 THEN ""
    ELSE BlockText(Head(blocks)) \o BlocksText(Tail(blocks))

\* the lowercased text content classify_message builds
ContentText(entry) ==
    LET msg == Get(entry, "message", EmptyDict)
        raw_content == Get(msg, "content", JStr(""))
    IN  IF raw_content.k = "str" THEN lower(raw_content.v)
        ELSE IF raw_content.k = "list" THEN BlocksText(raw_content.v)
        ELSE ""

\* classify_message with the first two keyword tests in the other order
classify_message_reconnect_first(entry) ==
    LET msg == Get(entry, "message", EmptyDict)
        role == Get(msg, "role", "")
        content == ContentText(entry)
    IN  IF any(WhatsappKw, content) THEN "whatsapp_reconnect"
        ELSE IF any(HeartbeatKw, content) THEN "heartbeat"
        ELSE IF any(MemoryKw, content) THEN "memory_resync"
        ELSE IF any(EmailKw, content) THEN "email_check"
        ELSE IF any(CostReportKw, content) THEN "cost_report"
        ELSE IF any(CronKw, content) THEN "cron_task"
        ELSE IF role = "user" THEN "user_request"
        ELSE IF role = "assistant" THEN "response"
        ELSE "other"

\* classify_message taking a missing role for the user's
classify_message_default_user(entry) ==
    LET msg == Get(entry, "message", EmptyDict)
        role == Get(msg, "role", "user")
        content == ContentText(entry)
    IN  IF any(HeartbeatKw, content) THEN "heartbeat"
        ELSE IF any(WhatsappKw, content) THEN "whatsapp_reconnect"
        ELSE IF any(MemoryKw, content) THEN "memory_resync"
        ELSE IF any(EmailKw, content) THEN "email_check"
        ELSE IF any(CostReportKw, content) THEN "cost_report"
        ELSE IF any(CronKw, content) THEN "cron_task"
        ELSE IF role = "user" THEN "user_request"
        ELSE IF role = "assistant" THEN "response"
        ELSE "other"

classify_message(entry) ==
    LET msg == Get(entry, "message", EmptyDict)
        role == Get(msg, "role", "")
        content == ContentText(entry)
    IN  IF any(HeartbeatKw, content) THEN "heartbeat"
        ELSE IF any(WhatsappKw, content) THEN "whatsapp_reconnect"
        ELSE IF any(MemoryKw, content) THEN "memory_resync"
        ELSE IF any(EmailKw, content) THEN "email_check"
        ELSE IF any(CostReportKw, content) THEN "cost_report"
        ELSE IF any(CronKw, content) THEN "cron_task"
        ELSE IF role = "user" THEN "user_request"
        ELSE IF role = "assistant" THEN "response"
        ELSE "other"

----------------------------------------------------------------------------
(* Messages handed to classify_message                                     *)

MaxFrags == 3       \* text fragments in a string content
MaxBlocks == 2      \* blocks in a list content

Fragments == {"HEARTBEAT_OK", "health", "check", "Reconnect", "SOUL.md",
              "inbox", "Token Usage", "acronym", "hello"}

RECURSIVE Joined(_)
Joined(n) ==
    IF n = 1 THEN Fragments
    ELSE Joined(n - 1) \cup {s \o " " \o f : s \in Joined(n - 1), f \in Fragments}

Texts == {""} \cup Joined(MaxFrags)

Blocks ==
    {JDict([type |-> "text", text |-> f]) : f \in Fragments}
    \cup {JDict([type |-> "thinking", thinking |-> f]) : f \in {"Reconnect", "health"}}
    \cup {JStr("inbox"),
          JDict([type |-> "image", text |-> "HEARTBEAT_OK"]),
          JDict([type |-> "text"]),
          JInt(7)}

RECURSIVE BlockLists(_)
BlockLists(n) ==
    IF n = 0 THEN {<<>>}
    ELSE BlockLists(n - 1)
         \cup {Append(l, b) : l \in {m \in BlockLists(n - 1) : Len(m) = n - 1}, b \in Blocks}

Contents ==
    {JStr(t) : t \in Texts} \cup {JList(l) : l \in BlockLists(MaxBlocks)} \cup {JNull, JInt(7)}

Roles == {"user", "assistant", "system"}

ClassifyInputs ==
    {[type |-> "message"]}
    \cup {[type |-> "message", message |-> r @@ c] :
            r \in Optional("role", Roles), c \in Optional("content", Contents)}

----------------------------------------------------------------------------
(* Calls of classify_message: the message is drawn first, the call acts    *)

InitClassify ==
    /\ dir = NoDir
    /\ op = "call"
    /\ arg \in ClassifyInputs
    /\ out = Nothing
    /\ agent = "None"
    /\ chat = <<>>

ClassifyMessage ==
    /\ op = "call"
    /\ op' = "classify_message"
    /\ out' = Returned(classify_message(arg))
    /\ UNCHANGED <<dir, arg, agent, chat>>

SpecClassify == InitClassify /\ [][ClassifyMessage]_vars

----------------------------------------------------------------------------
(* extract_usage (tools.py)                                                *)

\* a or b, on numbers
Or(a, b) == IF a # 0 THEN a ELSE b

\* extract_usage reading the total only when the key is missing
extract_usage_total_if_present(entry) ==
    LET msg == Get(entry, "message", EmptyDict)
        usage == Get(msg, "usage", EmptyDict)
        cost_data == Get(usage, "cost", EmptyDict)
    IN  IF usage = EmptyDict THEN JNull
        ELSE [input |-> Get(usage, "input", 0),
              output |-> Get(usage, "output", 0),
              cache_read |-> Get(usage, "cacheRead", 0),
              cache_write |-> Get(usage, "cacheWrite", 0),
              total_tokens |-> IF "totalTokens" \in DOMAIN usage
                               THEN usage["totalTokens"]
                               ELSE Get(usage, "input", 0) + Get(usage, "output", 0),
              cost |-> [input |-> Get(cost_data, "input", 0),
                        output |-> Get(cost_data, "output", 0),
                        cache_read |-> Get(cost_data, "cacheRead", 0),
                        cache_write |-> Get(cost_data, "cacheWrite", 0),
                        total |-> Get(cost_data, "total", 0)]]

\* None, or the usage record
extract_usage(entry) ==
    LET msg == Get(entry, "message", EmptyDict)
        usage == Get(msg, "usage", EmptyDict)
        cost_data == Get(usage, "cost", EmptyDict)
    IN  IF usage = EmptyDict THEN JNull
        ELSE [input |-> Get(usage, "input", 0),
              output |-> Get(usage, "output", 0),
              cache_read |-> Get(usage, "cacheRead", 0),
              cache_write |-> Get(usage, "cacheWrite", 0),
              total_tokens |-> Or(Get(usage, "totalTokens", 0),
                                  Get(usage, "input", 0) + Get(usage, "output", 0)),
              cost |-> [input |-> Get(cost_data, "input", 0),
                        output |-> Get(cost_data, "output", 0),
                        cache_read |-> Get(cost_data, "cacheRead", 0),
                        cache_write |-> Get(cost_data, "cacheWrite", 0),
                        total |-> Get(cost_data, "total", 0)]]

\* Usage sub-objects: token counts, and costs counted in 1/10000 dollar
MaxTokens == 2      \* token counts are 0, 5, .., 5 * MaxTokens

TokenCounts == {5 * n : n \in 0..MaxTokens}

CostDicts ==
    {t @@ c : t \in Optional("total", {0, 3}), c \in Optional("cacheRead", {2})}

UsageDicts ==
    {i @@ o @@ t @@ c : i \in Optional("input", TokenCounts),
                        o \in Optional("output", TokenCounts),
                        t \in Optional("totalTokens", TokenCounts \cup {100}),
                        c \in Optional("cost", CostDicts)}

UsageInputs ==
    {[type |-> "message"], [type |-> "message", message |-> [role |-> "user"]]}
    \cup {[type |-> "message", message |-> [role |-> "assistant", usage |-> u]] :
            u \in UsageDicts}

InitUsage ==
    /\ dir = NoDir
    /\ op = "call"
    /\ arg \in UsageInputs
    /\ out = Nothing
    /\ agent = "None"
    /\ chat = <<>>

ExtractUsage ==
    /\ op = "call"
    /\ op' = "extract_usage"
    /\ out' = Returned(extract_usage(arg))
    /\ UNCHANGED <<dir, arg, agent, chat>>

SpecUsage == InitUsage /\ [][ExtractUsage]_vars

----------------------------------------------------------------------------
(* normalize_ts (server.py)                                                *)
(*                                                                         *)
(* Every number of the timestamp arithmetic is counted in units of 10^6:   *)
(* 1700 stands for 1.7e9 (seconds, 2023-11-14), 1700000 for 1.7e12 (the    *)
(* same instant in milliseconds).  The numbers drawn are multiples of the  *)
(* powers of 1000 they get divided by, so \div is the exact quotient.      *)

JFloat(n) == [k |-> "float", v |-> n]

\* an int so large that its quotient by 1000 is no float (10**400)
JHugeInt == [k |-> "int", v |-> 0, huge |-> TRUE]

IsHuge(ts) == "huge" \in DOMAIN ts

MsThreshold == 1000000      \* 1e12
Thousand == 1000            \* a factor of 1000 divides the unit away

\* ts.replace("Z", "+00:00")
RECURSIVE replaceZ(_)
replaceZ(s) ==
    IF Len(s) = 0 THEN ""
    ELSE (IF SubSeq(s, 1, 1) = "Z" THEN "+00:00" ELSE SubSeq(s, 1, 1))
         \o replaceZ(SubSeq(s, 2, Len(s)))

\* datetime.fromisoformat(s).timestamp() on the strings it accepts here
IsoEpoch ==
    ("2023-11-14T22:13:20+00:00" :> 1700) @@ ("2023-11-26T12:00:00+00:00" :> 1701)
    @@ ("2023-12-08T01:46:40+00:00" :> 1702) @@ ("2023-12-19T15:33:20+00:00" :> 1703)
    @@ ("2023-12-31T05:20:00+00:00" :> 1704)

fromisoformat(s) ==
    IF s \in DOMAIN IsoEpoch THEN Returned(IsoEpoch[s]) ELSE Raised("ValueError")

\* ts / 1000 if ts > 1e12 else float(ts)
ScaleEpoch(ts) ==
    IF IsHuge(ts) THEN Raised("OverflowError")
    ELSE IF ts.v > MsThreshold THEN Returned(ts.v \div Thousand)
    ELSE Returned(ts.v)

\* normalize_ts with the threshold a factor of 1000 too low (1e9)
normalize_ts_low_threshold(ts) ==
    IF ts.k = "null" THEN Returned(0)
    ELSE IF ts.k = "str"
    THEN LET parsed == fromisoformat(replaceZ(ts.v))
         IN  IF parsed.ok THEN parsed ELSE Returned(0)
    ELSE IF ts.k \in {"int", "float"}
    THEN IF IsHuge(ts) THEN Raised("OverflowError")
         ELSE IF ts.v > MsThreshold \div Thousand THEN Returned(ts.v \div Thousand)
         ELSE Returned(ts.v)
    ELSE Returned(0)

normalize_ts(ts) ==
    IF ts.k = "null" THEN Returned(0)
    ELSE IF ts.k = "str"
    THEN LET parsed == fromisoformat(replaceZ(ts.v))
         IN  IF parsed.ok THEN parsed ELSE Returned(0)
    ELSE IF ts.k \in {"int", "float"} THEN ScaleEpoch(ts)
    ELSE Returned(0)

\* Timestamps: seconds around TsBase, the same in milli- and microseconds
TsBase == 1700      \* 1.7e9 s
MaxOffset == 3      \* the instants are TsBase .. TsBase + MaxOffset

Instants == {TsBase + d : d \in 0..MaxOffset}

Numbers ==
    {-5, 0, 1, 2, MsThreshold, MsThreshold * Thousand}
    \cup Instants
    \cup {t * Thousand : t \in Instants}
    \cup {t * Thousand * Thousand : t \in Instants}

IsoStrings ==
    {"2023-11-14T22:13:20Z", "2023-11-14T22:13:20+00:00", "2023-11-26T12:00:00Z",
     "2023-12-19T15:33:20Z"}

TsInputs ==
    {JNull, JHugeInt, JList(<<>>), JList(<<JInt(TsBase)>>), JDict(EmptyDict)}
    \cup {JStr(s) : s \in IsoStrings \cup {"", "yesterday", "Z", "1700000000"}}
    \cup {JInt(n) : n \in Numbers}
    \cup {JFloat(n) : n \in Numbers}

InitTs ==
    /\ dir = NoDir
    /\ op = "call"
    /\ arg \in TsInputs
    /\ out = Nothing
    /\ agent = "None"
    /\ chat = <<>>

NormalizeTs ==
    /\ op = "call"
    /\ op' = "normalize_ts"
    /\ out' = normalize_ts(arg)
    /\ UNCHANGED <<dir, arg, agent, chat>>

\* normalize_ts applied to the value it returned
NormalizeTsAgain ==
    /\ op = "normalize_ts"
    /\ out.ok
    /\ op' = "normalize_ts_again"
    /\ out' = [fed |-> out.v] @@ normalize_ts(JFloat(out.v))
    /\ UNCHANGED <<dir, arg, agent, chat>>

SpecTs == InitTs /\ [][NormalizeTs \/ NormalizeTsAgain]_vars

----------------------------------------------------------------------------
(* load_all_messages (tools.py)                                            *)
(*                                                                         *)
(* dir.files maps the names of the files in the directory to their lines.  *)
(* A line is blank, or text json.loads rejects, or a JSON value.           *)

BlankLine == [k |-> "blank"]
GarbageLine == [k |-> "garbage"]
JsonLine(v) == [k |-> "json", v |-> v]

\* the file names there are, in the order sorted() puts them
SessionLogs == <<"s01.jsonl", "s02.jsonl", "s03.jsonl", "s04.jsonl", "s05.jsonl",
                 "s06.jsonl", "s07.jsonl", "s08.jsonl", "s09.jsonl", "s10.jsonl",
                 "s11.jsonl", "s12.jsonl", "s13.jsonl">>
FileOrder ==
    <<"a.jsonl", "b.jsonl", "notes.txt">> \o SessionLogs
    \o <<"sessions.json", "sessions_real.json">>

\* a glob that takes every file
IsJsonl_every_file(name) == Len(name) >= 0

\* Path.glob("*.jsonl")
IsJsonl(name) ==
    Len(name) >= 6 /\ SubSeq(name, Len(name) - 5, Len(name)) = ".jsonl"

\* the lines of one file, appended to all_entries
RECURSIVE LoadLines(_, _, _)
LoadLines(name, lines, all_entries) ==
    IF Len(lines) = 0 THEN Returned(all_entries)
    ELSE LET line == Head(lines)
         IN  IF line.k = "blank" THEN LoadLines(name, Tail(lines), all_entries)
             ELSE IF line.k = "garbage" THEN LoadLines(name, Tail(lines), all_entries)
             ELSE IF line.v.k # "dict" THEN Raised("AttributeError")
             ELSE IF "type" \in DOMAIN line.v.v /\ line.v.v["type"] = "message"
             THEN LoadLines(name, Tail(lines),
                            Append(all_entries, ("_source_file" :> name) @@ line.v.v))
             ELSE LoadLines(name, Tail(lines), all_entries)

RECURSIVE LoadFiles(_, _, _)
LoadFiles(files, n, all_entries) ==
    IF n > Len(FileOrder) THEN Returned(all_entries)
    ELSE IF FileOrder[n] \in DOMAIN files /\ IsJsonl(FileOrder[n])
    THEN LET loaded == LoadLines(FileOrder[n], files[FileOrder[n]], all_entries)
         IN  IF loaded.ok THEN LoadFiles(files, n + 1, loaded.v) ELSE loaded
    ELSE LoadFiles(files, n + 1, all_entries)

\* a missing directory globs to nothing
load_all_messages(d) ==
    IF d.exists THEN LoadFiles(d.files, 1, <<>>) ELSE Returned(<<>>)

----------------------------------------------------------------------------
(* Arithmetic of the analysis                                              *)
(*                                                                         *)
(* Costs are counted in 1/100000 dollar.  active_days is counted in 1/54   *)
(* day: a span of s (units of 10^6 seconds) is s * 10^6 / 86400 =          *)
(* s * 625 / 54 days.                                                      *)

DayNum == 625
DayDen == 54
Days(n) == n * DayDen
SpanDays(span) == span * DayNum

ValidThreshold == 1         \* 1000000
ClampAbove == 30
ClampTo == 12
DefaultDays == 14

\* n / d rounded to the nearest integer, ties to even, for n >= 0 and d > 0
RoundDiv(n, d) ==
    LET q == n \div d
        r == n % d
    IN  IF 2 * r > d \/ (2 * r = d /\ q % 2 = 1) THEN q + 1 ELSE q

\* n / (d1 * d2) rounded; below one half the product is not formed
RoundQuot(n, d1, d2) == IF 2 * n < d1 THEN 0 ELSE RoundDiv(n, d1 * d2)

\* round(cost, 4): 1/100000 dollar to 1/10000 dollar
Round4(cost) == RoundDiv(cost, 10)

\* round(cost / active_days * 30, 2), in cents
Monthly(cost, active_days) == RoundQuot(cost * 30 * DayDen, active_days, 1000)

\* round(hidden_cost / total_cost * 100, 1), in tenths of a percent
WastePct(hidden_cost, total_cost) ==
    IF total_cost > 0 THEN RoundDiv(hidden_cost * 1000, total_cost) ELSE 0

RECURSIVE SeqSum(_)
SeqSum(q) == IF Len(q) = 0 THEN 0 ELSE Head(q) + SeqSum(Tail(q))

SeqMax(q) == CHOOSE x \in {q[i] : i \in 1..Len(q)} : \A i \in 1..Len(q) : q[i] <= x
SeqMin(q) == CHOOSE x \in {q[i] : i \in 1..Len(q)} : \A i \in 1..Len(q) : x <= q[i]

\* the truth value Python gives a JSON value
Truthy(v) ==
    CASE v.k = "null" -> FALSE
      [] v.k = "str" -> v.v # ""
      [] v.k \in {"int", "float"} -> IsHuge(v) \/ v.v # 0
      [] v.k = "list" -> Len(v.v) > 0
      [] v.k = "dict" -> v.v # EmptyDict

\* the nine categories, in the order the dict is written
CategoryOrder == <<"heartbeat", "memory_resync", "whatsapp_reconnect", "email_check",
                   "cost_report", "cron_task", "user_request", "response", "other">>
Categories == {CategoryOrder[i] : i \in 1..Len(CategoryOrder)}

\* the rec(...) calls with the reconnects first, as the classifier has them
RecTable_reconnect_first ==
    <<[cat |-> "whatsapp_reconnect", savings_pct |-> 95],
      [cat |-> "heartbeat", savings_pct |-> 80],
      [cat |-> "memory_resync", savings_pct |-> 60],
      [cat |-> "email_check", savings_pct |-> 75],
      [cat |-> "cost_report", savings_pct |-> 100],
      [cat |-> "cron_task", savings_pct |-> 50]>>

\* the rec(...) calls, in the order they are made
RecTable ==
    <<[cat |-> "heartbeat", savings_pct |-> 80],
      [cat |-> "memory_resync", savings_pct |-> 60],
      [cat |-> "whatsapp_reconnect", savings_pct |-> 95],
      [cat |-> "email_check", savings_pct |-> 75],
      [cat |-> "cost_report", savings_pct |-> 100],
      [cat |-> "cron_task", savings_pct |-> 50]>>

\* rec(cat_key, issue, fix, savings_pct), called for RecTable[n] onwards
RECURSIVE Recs(_, _, _)
Recs(categories, active_days, n) ==
    IF n > Len(RecTable) THEN <<>>
    ELSE (IF categories[RecTable[n].cat].cost > 0
          THEN <<[issue |-> RecTable[n].cat,
                  monthly_waste |-> Monthly(categories[RecTable[n].cat].cost, active_days),
                  savings_pct |-> RecTable[n].savings_pct]>>
          ELSE <<>>)
         \o Recs(categories, active_days, n + 1)

\* round(sum(r["monthly_waste"] * r["savings_pct"] / 100 ...), 2), in cents
Potential(recommendations) ==
    RoundDiv(SeqSum([i \in 1..Len(recommendations) |->
                recommendations[i].monthly_waste * recommendations[i].savings_pct]), 100)

\* the hidden sum taken over the six categories that get a recommendation
RECURSIVE HiddenSum_recommended_only(_, _)
HiddenSum_recommended_only(categories, n) ==
    IF n > Len(RecTable) THEN 0
    ELSE categories[RecTable[n].cat].cost + HiddenSum_recommended_only(categories, n + 1)

\* sum(categories[c]["cost"] for c in categories if c not in [...])
RECURSIVE HiddenSum(_, _)
HiddenSum(categories, n) ==
    IF n > Len(CategoryOrder) THEN 0
    ELSE (IF CategoryOrder[n] \in {"user_request", "response"} THEN 0
          ELSE categories[CategoryOrder[n]].cost)
         + HiddenSum(categories, n + 1)

----------------------------------------------------------------------------
(* find_hidden_costs (tools.py)                                            *)

ToolsCategories ==
    [c \in Categories |-> [count |-> 0, tokens |-> 0, cost |-> 0, cache_read |-> 0]]

ToolsStart ==
    [categories |-> ToolsCategories, total_cache_read_cost |-> 0,
     total_cache_write_cost |-> 0, timestamps |-> <<>>]

\* the turn noting the timestamp before it looks for usage data
ToolsStep_timestamp_first(st, entry) ==
    LET usage == extract_usage(entry)
        classified == classify_message(entry)
        cat == IF classified \in DOMAIN st.categories THEN classified ELSE "other"
        ts == Get(entry, "timestamp", JNull)
        timestamps == IF Truthy(ts) THEN Append(st.timestamps, ts) ELSE st.timestamps
    IN  IF usage = JNull THEN [st EXCEPT !.timestamps = timestamps]
        ELSE [categories |->
                 [st.categories EXCEPT
                    ![cat] = [count |-> @.count + 1,
                              tokens |-> @.tokens + usage.total_tokens,
                              cost |-> @.cost + usage.cost.total,
                              cache_read |-> @.cache_read + usage.cache_read]],
              total_cache_read_cost |-> st.total_cache_read_cost + usage.cost.cache_read,
              total_cache_write_cost |-> st.total_cache_write_cost + usage.cost.cache_write,
              timestamps |-> timestamps]

\* one turn of `for entry in messages`
ToolsStep(st, entry) ==
    LET usage == extract_usage(entry)
        classified == classify_message(entry)
        cat == IF classified \in DOMAIN st.categories THEN classified ELSE "other"
        ts == Get(entry, "timestamp", JNull)
    IN  IF usage = JNull THEN st
        ELSE [categories |->
                 [st.categories EXCEPT
                    ![cat] = [count |-> @.count + 1,
                              tokens |-> @.tokens + usage.total_tokens,
                              cost |-> @.cost + usage.cost.total,
                              cache_read |-> @.cache_read + usage.cache_read]],
              total_cache_read_cost |-> st.total_cache_read_cost + usage.cost.cache_read,
              total_cache_write_cost |-> st.total_cache_write_cost + usage.cost.cache_write,
              timestamps |-> IF Truthy(ts) THEN Append(st.timestamps, ts)
                             ELSE st.timestamps]

RECURSIVE ToolsLoop(_, _)
ToolsLoop(messages, st) ==
    IF Len(messages) = 0 THEN st
    ELSE ToolsLoop(Tail(messages), ToolsStep(st, Head(messages)))

\* timestamps_s: the strings that parse and the numbers, in seconds
RECURSIVE ToolsSeconds(_, _)
ToolsSeconds(timestamps, timestamps_s) ==
    IF Len(timestamps) = 0 THEN Returned(timestamps_s)
    ELSE LET t == Head(timestamps)
         IN  IF t.k = "str"
             THEN LET parsed == fromisoformat(replaceZ(t.v))
                  IN  ToolsSeconds(Tail(timestamps),
                                   IF parsed.ok THEN Append(timestamps_s, parsed.v)
                                   ELSE timestamps_s)
             ELSE IF t.k \in {"int", "float"}
             THEN LET scaled == ScaleEpoch(t)
                  IN  IF scaled.ok
                      THEN ToolsSeconds(Tail(timestamps), Append(timestamps_s, scaled.v))
                      ELSE scaled
             ELSE ToolsSeconds(Tail(timestamps), timestamps_s)

\* active_days of find_hidden_costs, given timestamps_s
ToolsActiveDays(timestamps, timestamps_s) ==
    IF Len(timestamps) > 0
    THEN IF Len(timestamps_s) > 0
         THEN Max2(SpanDays(SeqMax(timestamps_s) - SeqMin(timestamps_s)), Days(1))
         ELSE Days(DefaultDays)
    ELSE Days(DefaultDays)

\* the recommendation on cache reads, when it is made
CacheRec(total_cache_read_cost, active_days) ==
    IF total_cache_read_cost > 0
       /\ active_days <= (total_cache_read_cost * 30 * DayDen - 1) \div 1000
    THEN <<[issue |-> "cache_read",
            monthly_waste |-> Monthly(total_cache_read_cost, active_days),
            savings_pct |-> 40]>>
    ELSE <<>>

\* the JSON document, with the locals it is computed from
ToolsReport(st, active_days) ==
    LET categories == st.categories
        user_cost == categories["user_request"].cost + categories["response"].cost
        hidden_cost == HiddenSum(categories, 1)
        total_cost == user_cost + hidden_cost
        recommendations == Recs(categories, active_days, 1)
                           \o CacheRec(st.total_cache_read_cost, active_days)
    IN  [cost_breakdown |->
            [c \in {k \in Categories : categories[k].count > 0} |->
                [count |-> categories[c].count, tokens |-> categories[c].tokens,
                 cache_read |-> categories[c].cache_read,
                 cost_usd |-> Round4(categories[c].cost)]],
         summary |->
            [total_cost |-> Round4(total_cost),
             user_initiated_cost |-> Round4(user_cost),
             hidden_cost |-> Round4(hidden_cost),
             waste_percentage |-> WastePct(hidden_cost, total_cost),
             projected_monthly_total |-> Monthly(total_cost, active_days),
             projected_monthly_hidden |-> Monthly(hidden_cost, active_days),
             cache_read_cost |-> Round4(st.total_cache_read_cost),
             cache_write_cost |-> Round4(st.total_cache_write_cost)],
         recommendations |-> recommendations,
         total_potential_monthly_savings |-> Potential(recommendations),
         locals |-> [categories |-> categories, timestamps |-> st.timestamps,
                     user_cost |-> user_cost, hidden_cost |-> hidden_cost,
                     total_cost |-> total_cost, active_days |-> active_days]]

find_hidden_costs(d) ==
    LET loaded == load_all_messages(d)
    IN  IF ~loaded.ok THEN loaded
        ELSE LET st == ToolsLoop(loaded.v, ToolsStart)
                 seconds == ToolsSeconds(st.timestamps, <<>>)
             IN  IF ~seconds.ok THEN seconds
                 ELSE Returned(ToolsReport(st, ToolsActiveDays(st.timestamps, seconds.v)))

----------------------------------------------------------------------------
(* The active-days window of api_hidden_costs and of the api_chat fallback *)
(* (server.py lines 117-125 and, the same text, lines 218-226)             *)

\* a alone
OrElse_first(a, b) == a

\* a or b
OrElse(a, b) == IF Truthy(a) THEN a ELSE b

\* entry.get("timestamp") or entry.get("message", {}).get("timestamp")
EntryTimestamp(entry) ==
    OrElse(Get(entry, "timestamp", JNull),
           Get(Get(entry, "message", EmptyDict), "timestamp", JNull))

\* the window with a floor of half a day instead of one day
ActiveDaysWindow_half_day_floor(timestamps) ==
    IF Len(timestamps) > 0
    THEN LET valid_ts == SelectSeq(timestamps, LAMBDA t : t > ValidThreshold)
             mn0 == IF Len(valid_ts) = 0 THEN 0 ELSE SeqMin(valid_ts)
             mx0 == IF Len(valid_ts) = 0 THEN 0 ELSE SeqMax(valid_ts)
             mn == IF mn0 > MsThreshold THEN mn0 \div Thousand ELSE mn0
             mx == IF mn0 > MsThreshold THEN mx0 \div Thousand ELSE mx0
             active_days == Max2(SpanDays(mx - mn), Days(1) \div 2)
         IN  IF active_days > Days(ClampAbove) THEN Days(ClampTo) ELSE active_days
    ELSE Days(DefaultDays)

\* the 12 of the branch without valid timestamps is assigned and then
\* overwritten by the max(...) two lines below it
ActiveDaysWindow(timestamps) ==
    IF Len(timestamps) > 0
    THEN LET valid_ts == SelectSeq(timestamps, LAMBDA t : t > ValidThreshold)
             mn0 == IF Len(valid_ts) = 0 THEN 0 ELSE SeqMin(valid_ts)
             mx0 == IF Len(valid_ts) = 0 THEN 0 ELSE SeqMax(valid_ts)
             mn == IF mn0 > MsThreshold THEN mn0 \div Thousand ELSE mn0
             mx == IF mn0 > MsThreshold THEN mx0 \div Thousand ELSE mx0
             active_days == Max2(SpanDays(mx - mn), Days(1))
         IN  IF active_days > Days(ClampAbove) THEN Days(ClampTo) ELSE active_days
    ELSE Days(DefaultDays)

\* JSONResponse(content, status_code)
Response(status, content) == Returned([status |-> status, content |-> content])

----------------------------------------------------------------------------
(* api_hidden_costs (server.py)                                            *)

ServerCategories == [c \in Categories |-> [count |-> 0, tokens |-> 0, cost |-> 0]]

ServerStart == [ok |-> TRUE, categories |-> ServerCategories, timestamps |-> <<>>]

\* one turn of `for entry in messages`
ServerStep(st, entry) ==
    LET usage == extract_usage(entry)
        classified == classify_message(entry)
        cat == IF classified \in DOMAIN st.categories THEN classified ELSE "other"
        ts == EntryTimestamp(entry)
        normalized == normalize_ts(ts)
    IN  IF usage = JNull THEN st
        ELSE IF Truthy(ts) /\ ~normalized.ok THEN normalized
        ELSE [ok |-> TRUE,
              categories |->
                 [st.categories EXCEPT
                    ![cat] = [count |-> @.count + 1,
                              tokens |-> @.tokens + usage.total_tokens,
                              cost |-> @.cost + usage.cost.total]],
              timestamps |-> IF Truthy(ts) THEN Append(st.timestamps, normalized.v)
                             ELSE st.timestamps]

RECURSIVE ServerLoop(_, _)
ServerLoop(messages, st) ==
    IF Len(messages) = 0 \/ ~st.ok THEN st
    ELSE ServerLoop(Tail(messages), ServerStep(st, Head(messages)))

ServerReport(st) ==
    LET categories == st.categories
        user_cost == categories["user_request"].cost + categories["response"].cost
        hidden_cost == HiddenSum(categories, 1)
        total_cost == user_cost + hidden_cost
        active_days == ActiveDaysWindow(st.timestamps)
        recommendations == Recs(categories, active_days, 1)
    IN  [cost_breakdown |->
            [c \in {k \in Categories : categories[k].count > 0} |->
                [count |-> categories[c].count, tokens |-> categories[c].tokens,
                 cost_usd |-> Round4(categories[c].cost)]],
         summary |->
            [total_cost_today |-> Round4(total_cost),
             user_initiated_cost |-> Round4(user_cost),
             hidden_cost |-> Round4(hidden_cost),
             waste_percentage |-> WastePct(hidden_cost, total_cost),
             projected_monthly_total |-> Monthly(total_cost, active_days),
             projected_monthly_hidden |-> Monthly(hidden_cost, active_days)],
         recommendations |-> recommendations,
         total_potential_monthly_savings |-> Potential(recommendations),
         locals |-> [categories |-> categories, timestamps |-> st.timestamps,
                     user_cost |-> user_cost, hidden_cost |-> hidden_cost,
                     total_cost |-> total_cost, active_days |-> active_days]]

\* any exception becomes the 500 response
api_hidden_costs(d) ==
    LET loaded == load_all_messages(d)
    IN  IF ~loaded.ok THEN Response(500, [error |-> loaded.exc])
        ELSE LET st == ServerLoop(loaded.v, ServerStart)
             IN  IF ~st.ok THEN Response(500, [error |-> st.exc])
                 ELSE Response(200, ServerReport(st))

----------------------------------------------------------------------------
(* The fallback of api_chat (server.py)                                    *)

ChatStart ==
    [ok |-> TRUE, categories |-> EmptyDict, total_cost |-> 0, total_tokens |-> 0,
     timestamps |-> <<>>]

\* one turn of `for entry in messages`
ChatStep(st, entry) ==
    LET usage == extract_usage(entry)
        cat == classify_message(entry)
        was == Get(st.categories, cat, [count |-> 0, tokens |-> 0, cost |-> 0])
        ts == EntryTimestamp(entry)
        normalized == normalize_ts(ts)
    IN  IF usage = JNull THEN st
        ELSE IF Truthy(ts) /\ ~normalized.ok THEN normalized
        ELSE [ok |-> TRUE,
              categories |->
                 (cat :> [count |-> was.count + 1,
                          tokens |-> was.tokens + usage.total_tokens,
                          cost |-> was.cost + usage.cost.total]) @@ st.categories,
              total_cost |-> st.total_cost + usage.cost.total,
              total_tokens |-> st.total_tokens + usage.total_tokens,
              timestamps |-> IF Truthy(ts) THEN Append(st.timestamps, normalized.v)
                             ELSE st.timestamps]

RECURSIVE ChatLoop(_, _)
ChatLoop(messages, st) ==
    IF Len(messages) = 0 \/ ~st.ok THEN st
    ELSE ChatLoop(Tail(messages), ChatStep(st, Head(messages)))

\* which of the five texts answers the message
ChatKind(message) ==
    IF any(<<"hidden", "waste", "oculto", "gasto", "where", "donde">>, message)
    THEN "hidden"
    ELSE IF any(<<"save", "ahorr", "optim", "reduce", "fix", "recommend">>, message)
    THEN "save"
    ELSE IF any(<<"which", "worst", "most", "cual", "peor">>, message)
    THEN "which"
    ELSE IF any(<<"cost", "estimate", "cuanto", "how much", "price">>, message)
    THEN "cost"
    ELSE "default"

\* the numbers the text is formatted from
ChatReport(message, messages, st) ==
    LET categories == st.categories
        none == [count |-> 0, tokens |-> 0, cost |-> 0]
        active_days == ActiveDaysWindow(st.timestamps)
        user_cost == Get(categories, "user_request", none).cost
                     + Get(categories, "response", none).cost
        hidden_cost == st.total_cost - user_cost
    IN  [response |-> [kind |-> ChatKind(message), messages |-> Len(messages),
                       waste_pct |-> WastePct(hidden_cost, st.total_cost),
                       monthly |-> Monthly(st.total_cost, active_days),
                       monthly_hidden |-> Monthly(hidden_cost, active_days),
                       hb_monthly |-> Monthly(Get(categories, "heartbeat", none).cost,
                                              active_days)],
         source |-> "fallback",
         locals |-> [categories |-> categories, timestamps |-> st.timestamps,
                     user_cost |-> user_cost, hidden_cost |-> hidden_cost,
                     total_cost |-> st.total_cost, active_days |-> active_days]]

chat_fallback(message, d) ==
    LET loaded == load_all_messages(d)
    IN  IF ~loaded.ok
        THEN Response(500, [error |-> loaded.exc, response |-> "Error analyzing data"])
        ELSE LET st == ChatLoop(loaded.v, ChatStart)
             IN  IF ~st.ok
                 THEN Response(500, [error |-> st.exc, response |-> "Error analyzing data"])
                 ELSE Response(200, ChatReport(message, loaded.v, st))

----------------------------------------------------------------------------
(* api_chat (server.py)                                                    *)

\* str.strip(), of blanks
RECURSIVE strip(_)
strip(s) ==
    IF Len(s) = 0 THEN s
    ELSE IF SubSeq(s, 1, 1) = " " THEN strip(SubSeq(s, 2, Len(s)))
    ELSE IF SubSeq(s, Len(s), Len(s)) = " " THEN strip(SubSeq(s, 1, Len(s) - 1))
    ELSE s

\* what the agent path does: create_agent() raises, agent(message) raises,
\* or the agent answers
AgentOutcomes == {"create_raises", "call_raises", "answers"}

\* _agent after get_agent() and the call
AgentAfter(was, outcome) ==
    IF was = "None" /\ outcome = "create_raises" THEN "None" ELSE "Agent"

api_chat(body_message, outcome, d) ==
    LET message == strip(lower(body_message))
    IN  IF message = "" THEN Response(400, [error |-> "No message"])
        ELSE IF outcome = "answers"
        THEN Response(200, [response |-> "agent", source |-> "bedrock"])
        ELSE chat_fallback(message, d)

----------------------------------------------------------------------------
(* get_agent_overview (tools.py) and api_overview (server.py)              *)
(*                                                                         *)
(* file_costs is kept as the sequence of its items, in insertion order.    *)
(* A sessions file holds the sequence of its (key, data) items.            *)

Top == 10

\* the position of the first ch in s at or after position n, 0 if none
RECURSIVE Find(_, _, _)
Find(s, ch, n) ==
    IF n > Len(s) THEN 0
    ELSE IF SubSeq(s, n, n) = ch THEN n
    ELSE Find(s, ch, n + 1)

\* s.split(ch)[n] on a string with at least n separators before the part
RECURSIVE SplitPart(_, _, _)
SplitPart(s, ch, n) ==
    LET at == Find(s, ch, 1)
    IN  IF n = 0 THEN (IF at = 0 THEN s ELSE SubSeq(s, 1, at - 1))
        ELSE SplitPart(SubSeq(s, at + 1, Len(s)), ch, n - 1)

\* k.replace(".jsonl", "")
RECURSIVE replaceJsonl(_)
replaceJsonl(k) ==
    IF Len(k) < 6 THEN k
    ELSE IF SubSeq(k, 1, 6) = ".jsonl" THEN replaceJsonl(SubSeq(k, 7, Len(k)))
    ELSE SubSeq(k, 1, 1) \o replaceJsonl(SubSeq(k, 2, Len(k)))

SessionFileNames == <<"sessions_real.json", "sessions.json">>

\* the first sessions file there is, else {}
load_sessions(d) ==
    IF d.exists /\ SessionFileNames[1] \in DOMAIN d.files THEN d.files[SessionFileNames[1]]
    ELSE IF d.exists /\ SessionFileNames[2] \in DOMAIN d.files
    THEN d.files[SessionFileNames[2]]
    ELSE <<>>

\* the position of source in file_costs, 0 if it is not a key
FileIndex(file_costs, source) ==
    IF \E i \in 1..Len(file_costs) : file_costs[i].file = source
    THEN CHOOSE i \in 1..Len(file_costs) : file_costs[i].file = source
    ELSE 0

\* the body of `for entry in messages` on file_costs, shared word for word
\* by the two overviews
FileCostsAdd(file_costs, entry, usage) ==
    LET source == Get(entry, "_source_file", "unknown")
        known == IF FileIndex(file_costs, source) = 0
                 THEN Append(file_costs, [file |-> source, cost |-> 0, tokens |-> 0,
                                          messages |-> 0, model |-> "unknown"])
                 ELSE file_costs
        i == FileIndex(known, source)
    IN  [known EXCEPT
            ![i] = [file |-> source,
                    cost |-> @.cost + usage.cost.total,
                    tokens |-> @.tokens + usage.total_tokens,
                    messages |-> @.messages + 1,
                    model |-> Get(Get(entry, "message", EmptyDict), "model", @.model)]]

\* where x goes in items sorted by cost, greatest first, equal costs in the
\* order they came
RECURSIVE InsertByCost(_, _)
InsertByCost(items, x) ==
    IF Len(items) = 0 THEN <<x>>
    ELSE IF Head(items).cost >= x.cost THEN <<Head(items)>> \o InsertByCost(Tail(items), x)
    ELSE <<x>> \o items

\* the order with the least cost first
RECURSIVE SortByCost_ascending(_)
SortByCost_ascending(items) ==
    IF Len(items) = 0 THEN <<>>
    ELSE LET rest == SortByCost_ascending(SubSeq(items, 1, Len(items) - 1))
             x == items[Len(items)]
             before == SelectSeq(rest, LAMBDA y : y.cost <= x.cost)
             after == SelectSeq(rest, LAMBDA y : y.cost > x.cost)
         IN  before \o <<x>> \o after

\* sorted(file_costs.items(), key=lambda x: x[1]["cost"], reverse=True)
RECURSIVE SortByCost(_)
SortByCost(items) ==
    IF Len(items) = 0 THEN <<>>
    ELSE InsertByCost(SortByCost(SubSeq(items, 1, Len(items) - 1)), items[Len(items)])

\* [:10]
Slice(items, n) == SubSeq(items, 1, IF Len(items) < n THEN Len(items) ELSE n)

OverviewStart == [file_costs |-> <<>>, total_cost |-> 0, total_tokens |-> 0,
                  total_messages |-> 0]

\* a turn that keeps only the last message of each file
OverviewStep_overwrite(st, entry) ==
    LET usage == extract_usage(entry)
        fresh == FileCostsAdd(<<>>, entry, usage)[1]
        at == FileIndex(st.file_costs, fresh.file)
    IN  IF usage = JNull THEN st
        ELSE [file_costs |-> IF at = 0 THEN Append(st.file_costs, fresh)
                             ELSE [st.file_costs EXCEPT ![at] = fresh],
              total_cost |-> st.total_cost + usage.cost.total,
              total_tokens |-> st.total_tokens + usage.total_tokens,
              total_messages |-> st.total_messages + 1]

\* one turn of `for entry in messages` of get_agent_overview
OverviewStep(st, entry) ==
    LET usage == extract_usage(entry)
    IN  IF usage = JNull THEN st
        ELSE [file_costs |-> FileCostsAdd(st.file_costs, entry, usage),
              total_cost |-> st.total_cost + usage.cost.total,
              total_tokens |-> st.total_tokens + usage.total_tokens,
              total_messages |-> st.total_messages + 1]

RECURSIVE OverviewLoop(_, _)
OverviewLoop(messages, st) ==
    IF Len(messages) = 0 THEN st
    ELSE OverviewLoop(Tail(messages), OverviewStep(st, Head(messages)))

\* one item of session_overview
SessionOverview(key, data) ==
    [session_key |-> key,
     agent |-> IF In(":", key) THEN SplitPart(key, ":", 1) ELSE key,
     type |-> IF In("cron", key) THEN "cron" ELSE "main",
     channel |-> Get(Get(data, "deliveryContext", EmptyDict), "channel", "unknown"),
     compaction_count |-> Get(data, "compactionCount", 0)]

get_agent_overview(d) ==
    LET sessions == load_sessions(d)
        loaded == load_all_messages(d)
    IN  IF ~loaded.ok THEN loaded
        ELSE LET st == OverviewLoop(loaded.v, OverviewStart)
                 top_sessions == Slice(SortByCost(st.file_costs), Top)
             IN  Returned(
                    [sessions |-> [i \in 1..Len(sessions) |->
                                      SessionOverview(sessions[i][1], sessions[i][2])],
                     total_sessions |-> Len(sessions),
                     total_cost_usd |-> Round4(st.total_cost),
                     total_tokens |-> st.total_tokens,
                     total_messages |-> st.total_messages,
                     total_jsonl_files |-> Len(st.file_costs),
                     top_spending_sessions |->
                        [i \in 1..Len(top_sessions) |->
                            [file |-> top_sessions[i].file,
                             cost_usd |-> Round4(top_sessions[i].cost),
                             tokens |-> top_sessions[i].tokens,
                             messages |-> top_sessions[i].messages,
                             model |-> top_sessions[i].model]],
                     locals |-> [file_costs |-> st.file_costs,
                                 total_cost |-> st.total_cost,
                                 top |-> top_sessions]])

ApiOverviewStart == [file_costs |-> <<>>, total_cost |-> 0, total_tokens |-> 0]

\* one turn of `for entry in messages` of api_overview
ApiOverviewStep(st, entry) ==
    LET usage == extract_usage(entry)
    IN  IF usage = JNull THEN st
        ELSE [file_costs |-> FileCostsAdd(st.file_costs, entry, usage),
              total_cost |-> st.total_cost + usage.cost.total,
              total_tokens |-> st.total_tokens + usage.total_tokens]

RECURSIVE ApiOverviewLoop(_, _)
ApiOverviewLoop(messages, st) ==
    IF Len(messages) = 0 THEN st
    ELSE ApiOverviewLoop(Tail(messages), ApiOverviewStep(st, Head(messages)))

\* any exception becomes the 500 response
api_overview(d) ==
    LET loaded == load_all_messages(d)
    IN  IF ~loaded.ok THEN Response(500, [error |-> loaded.exc])
        ELSE LET st == ApiOverviewLoop(loaded.v, ApiOverviewStart)
                 top == Slice(SortByCost(st.file_costs), Top)
             IN  Response(200,
                    [agents |->
                        [i \in 1..Len(top) |->
                            [agent |-> SplitPart(top[i].model, "-", 0) \o " "
                                       \o replaceJsonl(top[i].file),
                             model |-> top[i].model,
                             total_tokens |-> top[i].tokens,
                             sessions |-> top[i].messages,
                             estimated_cost_usd |-> Round4(top[i].cost)]],
                     total_estimated_cost_usd |-> Round4(st.total_cost),
                     total_messages |-> SeqSum([i \in 1..Len(st.file_costs) |->
                                                   st.file_costs[i].messages]),
                     total_files |-> Len(st.file_costs),
                     locals |-> [file_costs |-> st.file_costs,
                                 total_cost |-> st.total_cost,
                                 total_tokens |-> st.total_tokens,
                                 top |-> top]])

----------------------------------------------------------------------------
(* estimate_task_cost (tools.py)                                           *)
(*                                                                         *)
(* Prices are counted in cents per million tokens, multipliers in tenths,  *)
(* and the averages are kept as a sum and the sample size beside it, so    *)
(* that each rounded result is one rounded quotient of integers.           *)

\* PRICING, in the order the dict is written
PRICING ==
    <<[model |-> "claude-sonnet-4-5", input |-> 300, output |-> 1500,
       cache_read |-> 30, cache_write |-> 375],
      [model |-> "claude-sonnet-4-20250514", input |-> 300, output |-> 1500,
       cache_read |-> 30, cache_write |-> 375],
      [model |-> "claude-opus-4-5", input |-> 1500, output |-> 7500,
       cache_read |-> 150, cache_write |-> 1875],
      [model |-> "claude-haiku-4-5", input |-> 80, output |-> 400,
       cache_read |-> 8, cache_write |-> 100]>>

HighKw == <<"research", "investigate", "analyze", "deep dive", "compare">>
WritingKw == <<"email", "draft", "write", "reply", "correo">>
LowKw == <<"check", "status", "list", "show", "revisar">>
SummaryKw == <<"summarize", "recap", "resumen">>
BrowsingKw == <<"browse", "search", "find", "buscar">>

\* the if/elif chain with the browsing words tested first
Tier_browsing_first(task_lower) ==
    IF any(BrowsingKw, task_lower)
    THEN [mult |-> 30, complexity |-> "medium", est_time |-> "2-5 min", est_tools |-> 5]
    ELSE IF any(HighKw, task_lower)
    THEN [mult |-> 40, complexity |-> "high", est_time |-> "3-8 min", est_tools |-> 8]
    ELSE IF any(WritingKw, task_lower)
    THEN [mult |-> 15, complexity |-> "medium", est_time |-> "30-90s", est_tools |-> 2]
    ELSE IF any(LowKw, task_lower)
    THEN [mult |-> 8, complexity |-> "low", est_time |-> "10-30s", est_tools |-> 1]
    ELSE IF any(SummaryKw, task_lower)
    THEN [mult |-> 25, complexity |-> "medium-high", est_time |-> "1-3 min", est_tools |-> 3]
    ELSE [mult |-> 15, complexity |-> "medium", est_time |-> "1-3 min", est_tools |-> 3]

\* mult, complexity, est_time, est_tools of the if/elif chain
Tier(task_lower) ==
    IF any(HighKw, task_lower)
    THEN [mult |-> 40, complexity |-> "high", est_time |-> "3-8 min", est_tools |-> 8]
    ELSE IF any(WritingKw, task_lower)
    THEN [mult |-> 15, complexity |-> "medium", est_time |-> "30-90s", est_tools |-> 2]
    ELSE IF any(LowKw, task_lower)
    THEN [mult |-> 8, complexity |-> "low", est_time |-> "10-30s", est_tools |-> 1]
    ELSE IF any(SummaryKw, task_lower)
    THEN [mult |-> 25, complexity |-> "medium-high", est_time |-> "1-3 min", est_tools |-> 3]
    ELSE IF any(BrowsingKw, task_lower)
    THEN [mult |-> 30, complexity |-> "medium", est_time |-> "2-5 min", est_tools |-> 5]
    ELSE [mult |-> 15, complexity |-> "medium", est_time |-> "1-3 min", est_tools |-> 3]

\* the usage of the loaded messages of role assistant
RECURSIVE AssistantCosts(_)
AssistantCosts(messages) ==
    IF Len(messages) = 0 THEN <<>>
    ELSE LET entry == Head(messages)
             usage == extract_usage(entry)
         IN  (IF usage = JNull \/ Get(Get(entry, "message", EmptyDict), "role", "")
                                    # "assistant"
              THEN <<>> ELSE <<usage>>)
             \o AssistantCosts(Tail(messages))

\* the four averages as sums over n samples; 8000, 1500, 50000 and 0.03
\* without a sample
Averages(assistant_costs) ==
    IF Len(assistant_costs) > 0
    THEN [n |-> Len(assistant_costs),
          input |-> SeqSum([i \in 1..Len(assistant_costs) |-> assistant_costs[i].input]),
          output |-> SeqSum([i \in 1..Len(assistant_costs) |-> assistant_costs[i].output]),
          cache |-> SeqSum([i \in 1..Len(assistant_costs) |->
                              assistant_costs[i].cache_read]),
          cost |-> SeqSum([i \in 1..Len(assistant_costs) |->
                              assistant_costs[i].cost.total])]
    ELSE [n |-> 1, input |-> 8000, output |-> 1500, cache |-> 50000, cost |-> 3000]

\* round(alt_cost, 4), in 1/10000 dollar
AltCost(avg, mult, alt_p) ==
    RoundDiv(avg.input * mult * alt_p.input + avg.output * mult * alt_p.output
             + avg.cache * 10 * alt_p.cache_read,
             avg.n * 100000)

\* the alternatives that leave out the target model only
RECURSIVE Alternatives_all_others(_, _, _, _)
Alternatives_all_others(model, avg, mult, n) ==
    IF n > Len(PRICING) THEN <<>>
    ELSE (IF PRICING[n].model # model
          THEN <<[model |-> PRICING[n].model, cost |-> AltCost(avg, mult, PRICING[n])]>>
          ELSE <<>>)
         \o Alternatives_all_others(model, avg, mult, n + 1)

\* the items of alternatives, in insertion order
RECURSIVE Alternatives(_, _, _, _)
Alternatives(model, avg, mult, n) ==
    IF n > Len(PRICING) THEN <<>>
    ELSE (IF PRICING[n].model # model /\ PRICING[n].model # "claude-sonnet-4-20250514"
          THEN <<[model |-> PRICING[n].model, cost |-> AltCost(avg, mult, PRICING[n])]>>
          ELSE <<>>)
         \o Alternatives(model, avg, mult, n + 1)

\* min(alternatives.items(), key=lambda x: x[1]) if alternatives else None
Cheapest(alternatives) ==
    IF Len(alternatives) = 0 THEN JNull
    ELSE alternatives[
            CHOOSE i \in 1..Len(alternatives) :
                /\ \A j \in 1..Len(alternatives) :
                      alternatives[i].cost <= alternatives[j].cost
                /\ \A j \in 1..(i - 1) : alternatives[j].cost > alternatives[i].cost]

estimate_task_cost(task_description, model, d) ==
    LET loaded == load_all_messages(d)
    IN  IF ~loaded.ok THEN loaded
        ELSE LET assistant_costs == AssistantCosts(loaded.v)
                 avg == Averages(assistant_costs)
                 tier == Tier(lower(task_description))
                 mult == tier.mult
                 alternatives == Alternatives(model, avg, mult, 1)
             IN  Returned(
                    [task |-> task_description,
                     complexity |-> tier.complexity,
                     model |-> model,
                     estimate |->
                        [input_tokens |-> (avg.input * mult) \div (avg.n * 10),
                         output_tokens |-> (avg.output * mult) \div (avg.n * 10),
                         task_cost_usd |-> RoundDiv(avg.cost * mult, avg.n * 100),
                         overhead_cost_usd |-> 28 * mult,
                         total_cost_usd |->
                            RoundDiv(avg.cost * mult + 28 * mult * avg.n * 100,
                                     avg.n * 100),
                         estimated_tool_calls |-> tier.est_tools,
                         estimated_time |-> tier.est_time],
                     based_on |-> [avg_response_cost |-> RoundDiv(avg.cost, avg.n * 10),
                                   sample_size |-> Len(assistant_costs)],
                     alternative_models |-> alternatives,
                     cheapest_option |-> Cheapest(alternatives),
                     locals |-> [mult |-> mult]])

----------------------------------------------------------------------------
(* The log and the requests                                                *)

MaxLines == 3       \* lines in the log file

Entry(role, content, usage, rest) ==
    [type |-> "message"] @@ rest
    @@ [message |-> [role |-> role, content |-> content] @@ usage]

EntryPool ==
    {Entry("user", JStr("Hello"), [usage |-> [input |-> 100, output |-> 0]], EmptyDict),
     Entry("assistant", JStr("Sure"),
           [usage |-> [input |-> 0, output |-> 50, cost |-> [total |-> 4004]]],
           [timestamp |-> JInt(TsBase)]),
     Entry("assistant", JList(<<JDict([type |-> "text", text |-> "HEARTBEAT_OK"])>>),
           [usage |-> [input |-> 10, output |-> 5, cacheRead |-> 40,
                       cost |-> [total |-> 4002, cacheRead |-> 2001]]],
           [timestamp |-> JInt((TsBase + 1) * Thousand)]),
     Entry("user", JStr("WhatsApp reconnect"),
           [usage |-> [totalTokens |-> 20, cost |-> [total |-> 7003]]],
           [timestamp |-> JStr("2023-12-19T15:33:20Z")]),
     Entry("system", JStr("boot"), [usage |-> [input |-> 5, cost |-> [total |-> 1002]]],
           [timestamp |-> JStr("yesterday")]),
     Entry("user", JStr("inbox"),
           [usage |-> [output |-> 5, cost |-> [total |-> 3001]],
            timestamp |-> JFloat(TsBase)], EmptyDict),
     Entry("user", JStr("hi"), [usage |-> [input |-> 5, cost |-> [total |-> 1002]]],
           [timestamp |-> JInt(TsBase * Thousand * Thousand)]),
     Entry("assistant", JStr("hm"), [usage |-> [input |-> 5]],
           [timestamp |-> JHugeInt]),
     Entry("assistant", JStr("heartbeat"), [usage |-> EmptyDict],
           [timestamp |-> JInt(TsBase + 4)])}

LinePool == {JsonLine(JDict(e)) : e \in EntryPool}

RECURSIVE LineSeqs(_)
LineSeqs(n) ==
    IF n = 0 THEN {<<>>}
    ELSE LineSeqs(n - 1)
         \cup {Append(l, x) : l \in {m \in LineSeqs(n - 1) : Len(m) = n - 1}, x \in LinePool}

\* no directory, no log file in it, or the one log file
Dirs ==
    {NoDir,
     [exists |-> TRUE, files |-> EmptyDict],
     [exists |-> TRUE,
      files |-> ("notes.txt" :> <<JsonLine(JDict(Entry("user", JStr("Hello"),
                    [usage |-> [input |-> 100, cost |-> [total |-> 9000]]], EmptyDict)))>>)]}
    \cup {[exists |-> TRUE, files |-> ("a.jsonl" :> l)] : l \in LineSeqs(MaxLines)}

ChatMessages == {"", "  Where is the WASTE "}

Init ==
    /\ dir \in Dirs
    /\ op = "idle"
    /\ arg = EmptyDict
    /\ out = Nothing
    /\ agent = "None"
    /\ chat = <<>>

FindHiddenCosts ==
    /\ op = "idle"
    /\ op' = "find_hidden_costs"
    /\ out' = find_hidden_costs(dir)
    /\ UNCHANGED <<dir, arg, agent, chat>>

ApiHiddenCosts ==
    /\ op = "idle"
    /\ op' = "api_hidden_costs"
    /\ out' = api_hidden_costs(dir)
    /\ UNCHANGED <<dir, arg, agent, chat>>

ApiChat ==
    /\ op = "idle"
    /\ \E body_message \in ChatMessages, outcome \in AgentOutcomes :
        /\ outcome = "create_raises" => agent = "None"
        /\ op' = "api_chat"
        /\ arg' = [message |-> body_message]
        /\ out' = api_chat(body_message, outcome, dir)
        /\ agent' = IF strip(lower(body_message)) = "" THEN agent
                    ELSE AgentAfter(agent, outcome)
    /\ UNCHANGED <<dir, chat>>

\* the response is sent and the request's state dropped
Respond ==
    /\ op # "idle"
    /\ op' = "idle"
    /\ arg' = EmptyDict
    /\ out' = Nothing
    /\ UNCHANGED <<dir, agent, chat>>

Next == FindHiddenCosts \/ ApiHiddenCosts \/ ApiChat \/ Respond

Spec == Init /\ [][Next]_vars

----------------------------------------------------------------------------
(* The overviews over many log files                                       *)

MaxFiles == 11      \* log files of one line each

\* a cheap and a dear message
OverviewPool ==
    <<Entry("assistant", JStr("ok"),
            [usage |-> [input |-> 10, cost |-> [total |-> 1002]],
             model |-> "claude-haiku-4-5"], EmptyDict),
      Entry("user", JStr("compare"),
            [usage |-> [output |-> 20, cost |-> [total |-> 7003]]], EmptyDict)>>

\* n log files of one message each: the same message in all of them but for
\* at most two, which hold the other one
ManyFiles ==
    {[exists |-> TRUE,
      files |-> [name \in {SessionLogs[i] : i \in 1..n} |->
                    LET i == CHOOSE j \in 1..n : SessionLogs[j] = name
                    IN  <<JsonLine(JDict(OverviewPool[IF i \in odd THEN 3 - most
                                                      ELSE most]))>>]] :
        n \in 0..MaxFiles,
        odd \in {D \in SUBSET (1..MaxFiles) : Cardinality(D) <= 2},
        most \in 1..Len(OverviewPool)}

SessionsPool ==
    <<<<"agent:main:cron:daily",
        [deliveryContext |-> [channel |-> "whatsapp"], compactionCount |-> 2]>>,
      <<"plain", EmptyDict>>>>

\* two log files
TwoFiles ==
    {[exists |-> TRUE, files |-> ("a.jsonl" :> l1) @@ ("b.jsonl" :> l2)] :
        l1 \in LineSeqs(MaxLines - 1), l2 \in LineSeqs(1)}

\* a sessions file and no log file; both sessions files beside a log file
WithSessions ==
    {[exists |-> TRUE, files |-> "sessions.json" :> SessionsPool],
     [exists |-> TRUE,
      files |-> ("sessions_real.json" :> SubSeq(SessionsPool, 1, 1))
                @@ ("sessions.json" :> SessionsPool)
                @@ ("a.jsonl" :> <<JsonLine(JDict(OverviewPool[1]))>>)]}

OverviewDirs == ManyFiles \cup TwoFiles \cup WithSessions \cup {NoDir}

InitOverview ==
    /\ dir \in OverviewDirs
    /\ op = "idle"
    /\ arg = EmptyDict
    /\ out = Nothing
    /\ agent = "None"
    /\ chat = <<>>

GetAgentOverview ==
    /\ op = "idle"
    /\ op' = "get_agent_overview"
    /\ out' = get_agent_overview(dir)
    /\ UNCHANGED <<dir, arg, agent, chat>>

ApiOverview ==
    /\ op = "idle"
    /\ op' = "api_overview"
    /\ out' = api_overview(dir)
    /\ UNCHANGED <<dir, arg, agent, chat>>

NextOverview == GetAgentOverview \/ ApiOverview \/ Respond

SpecOverview == InitOverview /\ [][NextOverview]_vars

----------------------------------------------------------------------------
(* Calls of estimate_task_cost: the task, the target model and the log are *)
(* drawn first, the call acts                                              *)

MaxWords == 2       \* words in a task description

TaskWords == {"Research", "investigate", "compare", "deep dive", "email", "reply",
              "Check", "show", "recap", "search", "find", "hello"}

RECURSIVE Phrases(_)
Phrases(n) ==
    IF n = 0 THEN {""}
    ELSE IF n = 1 THEN TaskWords
    ELSE Phrases(n - 1) \cup {s \o " " \o w : s \in Phrases(n - 1), w \in TaskWords}

TaskDescriptions == {""} \cup Phrases(MaxWords)

\* the models of the pricing table and one that is not in it
TargetModels == {PRICING[i].model : i \in 1..Len(PRICING)} \cup {"gpt-4"}

\* no log at all; a log with two assistant messages that carry usage data
EstimateDirs ==
    {NoDir,
     [exists |-> TRUE,
      files |-> ("a.jsonl" :>
        <<JsonLine(JDict(Entry("user", JStr("Hello"),
                               [usage |-> [input |-> 100, output |-> 0]], EmptyDict))),
          JsonLine(JDict(Entry("assistant", JStr("Sure"),
                               [usage |-> [input |-> 5000, output |-> 1000,
                                           cost |-> [total |-> 4004]]], EmptyDict))),
          JsonLine(JDict(Entry("assistant", JStr("HEARTBEAT_OK"),
                               [usage |-> [input |-> 10, output |-> 5, cacheRead |-> 40,
                                           cost |-> [total |-> 4002]]], EmptyDict))),
          JsonLine(JDict(Entry("assistant", JStr("hm"), [usage |-> EmptyDict],
                               EmptyDict)))>>)]}

InitEstimate ==
    /\ dir \in EstimateDirs
    /\ op = "call"
    /\ arg \in [task_description : TaskDescriptions, model : TargetModels]
    /\ out = Nothing
    /\ agent = "None"
    /\ chat = <<>>

EstimateTaskCost ==
    /\ op = "call"
    /\ op' = "estimate_task_cost"
    /\ out' = estimate_task_cost(arg.task_description, arg.model, dir)
    /\ UNCHANGED <<dir, arg, agent, chat>>

SpecEstimate == InitEstimate /\ [][EstimateTaskCost]_vars

----------------------------------------------------------------------------
(* Calls of load_all_messages: the directory is drawn first, the call acts *)

MaxLoadLines == 2   \* lines in the first log file

\* lines of every kind: blank, not JSON, JSON that is no object, an object
\* that is no message, and messages
LoadPool ==
    {BlankLine, GarbageLine, JsonLine(JInt(42)),
     JsonLine(JDict([type |-> "summary", text |-> "compacted"])),
     JsonLine(JDict([message |-> [role |-> "user"]])),
     JsonLine(JDict([type |-> "message", id |-> 1])),
     JsonLine(JDict([type |-> "message", id |-> 2, _source_file |-> "old.jsonl"]))}

\* the sequences of at most n elements of pool
RECURSIVE SeqsOf(_, _)
SeqsOf(pool, n) ==
    IF n = 0 THEN {<<>>}
    ELSE SeqsOf(pool, n - 1)
         \cup {Append(l, x) : l \in {m \in SeqsOf(pool, n - 1) : Len(m) = n - 1}, x \in pool}

\* two log files and a file that is none
LoadDirs ==
    {NoDir}
    \cup {[exists |-> TRUE,
           files |-> ("a.jsonl" :> l1) @@ ("b.jsonl" :> l2)
                     @@ ("notes.txt" :> <<JsonLine(JDict([type |-> "message", id |-> 3]))>>)] :
            l1 \in SeqsOf(LoadPool, MaxLoadLines), l2 \in SeqsOf(LoadPool, 1)}

InitLoad ==
    /\ dir \in LoadDirs
    /\ op = "call"
    /\ arg = EmptyDict
    /\ out = Nothing
    /\ agent = "None"
    /\ chat = <<>>

LoadAllMessages ==
    /\ op = "call"
    /\ op' = "load_all_messages"
    /\ out' = load_all_messages(dir)
    /\ UNCHANGED <<dir, arg, agent, chat>>

SpecLoad == InitLoad /\ [][LoadAllMessages]_vars

----------------------------------------------------------------------------
(* api_chat and get_agent statement by statement, for chat requests that   *)
(* run side by side (server.py lines 41-46 and 183-255)                    *)

MaxRequests == 2    \* chat requests

Requests == 1..MaxRequests

\* the agent create_agent() constructs for the request that calls it
Instances == <<"Agent1", "Agent2", "Agent3", "Agent4">>

\* a request that has not arrived
NoRequest ==
    [pc |-> "none", body |-> "", message |-> "", saw |-> "nothing", created |-> "None",
     agent |-> "None", failed |-> FALSE, out |-> Nothing]

\* POST /api/chat arrives with its body
Arrive(r) ==
    /\ chat[r].pc = "none"
    /\ \E body_message \in ChatMessages :
        chat' = [chat EXCEPT ![r].pc = "body", ![r].body = body_message]
    /\ UNCHANGED <<dir, op, arg, out, agent>>

\* the message is normalized after get_agent() has been entered
ReadBody_agent_first(r) ==
    /\ chat[r].pc = "body"
    /\ chat' = [chat EXCEPT ![r].message = strip(lower(chat[r].body)),
                            ![r].pc = "get_agent"]
    /\ UNCHANGED <<dir, op, arg, out, agent>>

\* message = body.get("message", "").lower().strip(); if not message: 400
ReadBody(r) ==
    /\ chat[r].pc = "body"
    /\ LET message == strip(lower(chat[r].body))
       IN  chat' = IF message = ""
                   THEN [chat EXCEPT ![r].message = message, ![r].pc = "done",
                                     ![r].out = Response(400, [error |-> "No message"])]
                   ELSE [chat EXCEPT ![r].message = message, ![r].pc = "get_agent"]
    /\ UNCHANGED <<dir, op, arg, out, agent>>

\* get_agent() that constructs whatever _agent holds
CheckAgent_always_create(r) ==
    /\ chat[r].pc = "get_agent"
    /\ chat' = [chat EXCEPT ![r].saw = agent, ![r].pc = "create_agent"]
    /\ UNCHANGED <<dir, op, arg, out, agent>>

\* if _agent is None
CheckAgent(r) ==
    /\ chat[r].pc = "get_agent"
    /\ chat' = [chat EXCEPT ![r].saw = agent,
                            ![r].pc = IF agent = "None" THEN "create_agent"
                                      ELSE "return_agent"]
    /\ UNCHANGED <<dir, op, arg, out, agent>>

\* from agent import create_agent; create_agent(): it raises, and the except
\* clause of api_chat takes over, or it returns the agent it has built
CreateAgent(r) ==
    /\ chat[r].pc = "create_agent"
    /\ \/ chat' = [chat EXCEPT ![r].failed = TRUE, ![r].pc = "fallback"]
       \/ chat' = [chat EXCEPT ![r].created = Instances[r], ![r].pc = "assign"]
    /\ UNCHANGED <<dir, op, arg, out, agent>>

\* _agent = <the agent built>
AssignAgent(r) ==
    /\ chat[r].pc = "assign"
    /\ agent' = chat[r].created
    /\ chat' = [chat EXCEPT ![r].pc = "return_agent"]
    /\ UNCHANGED <<dir, op, arg, out>>

\* return _agent, into the local agent of api_chat
ReturnAgent(r) ==
    /\ chat[r].pc = "return_agent"
    /\ chat' = [chat EXCEPT ![r].agent = agent, ![r].pc = "call_agent"]
    /\ UNCHANGED <<dir, op, arg, out, agent>>

\* result = agent(message): it raises, or the answer is returned
CallAgent(r) ==
    /\ chat[r].pc = "call_agent"
    /\ \/ chat' = [chat EXCEPT ![r].failed = TRUE, ![r].pc = "fallback"]
       \/ chat' = [chat EXCEPT
                     ![r].out = Response(200, [response |-> "agent", source |-> "bedrock"]),
                     ![r].pc = "done"]
    /\ UNCHANGED <<dir, op, arg, out, agent>>

\* the second try block
Fallback(r) ==
    /\ chat[r].pc = "fallback"
    /\ chat' = [chat EXCEPT ![r].out = chat_fallback(chat[r].message, dir),
                            ![r].pc = "done"]
    /\ UNCHANGED <<dir, op, arg, out, agent>>

\* no log; a log of three messages; a log with a timestamp of 10**400
ChatDirs ==
    {NoDir,
     [exists |-> TRUE,
      files |-> ("a.jsonl" :>
        <<JsonLine(JDict(Entry("user", JStr("Hello"),
                               [usage |-> [input |-> 100, cost |-> [total |-> 3001]]],
                               EmptyDict))),
          JsonLine(JDict(Entry("assistant", JStr("HEARTBEAT_OK"),
                               [usage |-> [input |-> 10, output |-> 5,
                                           cost |-> [total |-> 4002]]],
                               [timestamp |-> JInt(TsBase)])))>>)],
     [exists |-> TRUE,
      files |-> ("a.jsonl" :>
        <<JsonLine(JDict(Entry("assistant", JStr("hm"), [usage |-> [input |-> 5]],
                               [timestamp |-> JHugeInt])))>>)]}

InitChat ==
    /\ dir \in ChatDirs
    /\ op = "idle"
    /\ arg = EmptyDict
    /\ out = Nothing
    /\ agent = "None"
    /\ chat = [r \in Requests |-> NoRequest]

NextChat ==
    \E r \in Requests :
        \/ Arrive(r)
        \/ ReadBody(r)
        \/ CheckAgent(r)
        \/ CreateAgent(r)
        \/ AssignAgent(r)
        \/ ReturnAgent(r)
        \/ CallAgent(r)
        \/ Fallback(r)

SpecChat == InitChat /\ [][NextChat]_vars

----------------------------------------------------------------------------
(* The analyses over logs whose messages differ in their timestamps        *)

MaxStamped == 2     \* lines in the log file

\* no timestamp; a zero and an empty one; an unparseable one; one in seconds
\* and one in milliseconds; a zero one above a message-level one; and a
\* message without usage data that carries a timestamp
StampPool ==
    {JsonLine(JDict(Entry("user", JStr("Hello"),
                          [usage |-> [input |-> 100, cost |-> [total |-> 3001]]],
                          rest))) :
        rest \in {EmptyDict,
                  [timestamp |-> JInt(0)],
                  [timestamp |-> JStr("")],
                  [timestamp |-> JStr("yesterday")],
                  [timestamp |-> JInt(TsBase)],
                  [timestamp |-> JInt((TsBase + 1) * Thousand)]}}
    \cup {JsonLine(JDict(Entry("assistant", JStr("HEARTBEAT_OK"),
                               [usage |-> [output |-> 5, cost |-> [total |-> 4002]],
                                timestamp |-> JStr("tomorrow")],
                               [timestamp |-> JInt(0)]))),
          JsonLine(JDict(Entry("assistant", JStr("hm"), [usage |-> EmptyDict],
                               [timestamp |-> JInt(TsBase + 2)])))}

StampDirs ==
    {[exists |-> TRUE, files |-> ("a.jsonl" :> l)] : l \in SeqsOf(StampPool, MaxStamped)}

InitStamps ==
    /\ dir \in StampDirs
    /\ op = "idle"
    /\ arg = EmptyDict
    /\ out = Nothing
    /\ agent = "None"
    /\ chat = <<>>

SpecStamps == InitStamps /\ [][Next]_vars

----------------------------------------------------------------------------
(* Properties of classify_message                                          *)

Priority == <<"heartbeat", "whatsapp_reconnect", "memory_resync",
              "email_check", "cost_report", "cron_task">>

KeywordsOf(cat) ==
    CASE cat = "heartbeat" -> HeartbeatKw
      [] cat = "whatsapp_reconnect" -> WhatsappKw
      [] cat = "memory_resync" -> MemoryKw
      [] cat = "email_check" -> EmailKw
      [] cat = "cost_report" -> CostReportKw
      [] cat = "cron_task" -> CronKw

\* the positions in Priority whose keyword set occurs in the text
Hits(text) == {i \in 1..Len(Priority) : any(KeywordsOf(Priority[i]), text)}

RoleOf(entry) == Get(Get(entry, "message", EmptyDict), "role", "")

\* C1: the result is the first category, in the order heartbeat,
\* whatsapp_reconnect, memory_resync, email_check, cost_report, cron_task,
\* one of whose keywords occurs in the lowercased text; a text with both a
\* heartbeat and a whatsapp_reconnect keyword is a heartbeat whatever the role.
C1_PriorityOrder ==
    op = "classify_message" =>
        LET hits == Hits(ContentText(arg))
        IN  /\ hits # {} =>
                out.v = Priority[CHOOSE i \in hits : \A j \in hits : i <= j]
            /\ ({1, 2} \subseteq hits) => out.v = "heartbeat"

C1_Witness ==
    /\ op = "classify_message"
    /\ {1, 2, 4} \subseteq Hits(ContentText(arg))
    /\ RoleOf(arg) = "assistant"
    /\ Get(arg["message"], "content", JNull).k = "str"
    /\ out.v = "heartbeat"

\* C2: when no keyword of the six categories occurs in the text, the result
\* is user_request for role "user", response for role "assistant" and other
\* for any other or missing role.
C2_RoleFallback ==
    (op = "classify_message" /\ Hits(ContentText(arg)) = {}) =>
        out.v = (IF RoleOf(arg) = "user" THEN "user_request"
                 ELSE IF RoleOf(arg) = "assistant" THEN "response"
                 ELSE "other")

\* a message whose only block is an image block carrying a keyword in a
\* field the classifier does not read, and whose role is missing
C2_Witness ==
    /\ op = "classify_message"
    /\ "message" \in DOMAIN arg
    /\ "role" \notin DOMAIN arg["message"]
    /\ Get(arg["message"], "content", JNull)
            = JList(<<JDict([type |-> "image", text |-> "HEARTBEAT_OK"])>>)
    /\ out.v = "other"

----------------------------------------------------------------------------
(* Properties of extract_usage                                             *)

UsageOf(entry) == Get(Get(entry, "message", EmptyDict), "usage", EmptyDict)

InputPlusOutput(entry) == Get(UsageOf(entry), "input", 0) + Get(UsageOf(entry), "output", 0)

\* C7 as claimed: with usage data, total_tokens is the explicit totalTokens
\* whenever that key is present, else input + output.
C7_ExplicitTotalWhenPresent ==
    (op = "extract_usage" /\ UsageOf(arg) # EmptyDict) =>
        /\ out.v # JNull
        /\ out.v.total_tokens = (IF "totalTokens" \in DOMAIN UsageOf(arg)
                                 THEN UsageOf(arg)["totalTokens"]
                                 ELSE InputPlusOutput(arg))

\* C7 amended: with a non-empty usage sub-object, total_tokens is the explicit
\* totalTokens when that key is present and not zero, and input + output
\* (absent fields counted as zero) when it is absent or zero.
C7_ExplicitTotalWhenNonZero ==
    (op = "extract_usage" /\ UsageOf(arg) # EmptyDict) =>
        /\ out.v # JNull
        /\ out.v.total_tokens = (IF Get(UsageOf(arg), "totalTokens", 0) # 0
                                 THEN UsageOf(arg)["totalTokens"]
                                 ELSE InputPlusOutput(arg))

\* an explicit total of zero beside non-zero input and output
C7_Witness ==
    /\ op = "extract_usage"
    /\ "totalTokens" \in DOMAIN UsageOf(arg)
    /\ UsageOf(arg)["totalTokens"] = 0
    /\ InputPlusOutput(arg) = 15
    /\ out.v.total_tokens = 15

----------------------------------------------------------------------------
(* Properties of normalize_ts                                              *)

IsNumber(ts) == ts.k \in {"int", "float"}

\* C8: normalize_ts never raises; it returns 0 for None, for a string that is
\* no ISO-8601 timestamp and for a value of another type, and for a number
\* the value / 1000 above 1e12 and the value itself otherwise.
C8_NeverRaises ==
    op = "normalize_ts" =>
        /\ out.ok
        /\ arg.k \notin {"str", "int", "float"} => out.v = 0
        /\ (arg.k = "str" /\ arg.v \notin IsoStrings) => out.v = 0
        /\ IsNumber(arg) =>
                out.v = (IF arg.v > MsThreshold THEN arg.v \div Thousand ELSE arg.v)

\* C9 as claimed: normalize_ts(normalize_ts(x)) = normalize_ts(x) for every x.
C9_Idempotent ==
    op = "normalize_ts_again" => (out.ok /\ out.v = out.fed)

\* C9 amended: normalize_ts(normalize_ts(x)) = normalize_ts(x) for None, for
\* every string and for every number x not greater than 1e15.
C9_IdempotentUpTo1e15 ==
    (op = "normalize_ts_again"
        /\ (IsNumber(arg) => arg.v <= MsThreshold * Thousand)) =>
        (out.ok /\ out.v = out.fed)

\* a millisecond timestamp, divided once and then left alone
C9_Witness ==
    /\ op = "normalize_ts_again"
    /\ arg = JInt((TsBase + 1) * Thousand)
    /\ out.fed = TsBase + 1
    /\ out.v = TsBase + 1

----------------------------------------------------------------------------
(* Properties of the analysis passes                                       *)

\* an analysis pass has run to its end
Analysed ==
    \/ op = "find_hidden_costs" /\ out.ok
    \/ op = "api_hidden_costs" /\ out.v.status = 200
    \/ op = "api_chat" /\ out.v.status = 200 /\ out.v.content.source = "fallback"

Document == IF op = "find_hidden_costs" THEN out.v ELSE out.v.content
Locals == Document.locals

\* the messages the pass loaded
Loaded == load_all_messages(dir).v

\* the message carries usage data
Billable(entry) == UsageOf(entry) # EmptyDict

CostOf(entry) == Get(Get(UsageOf(entry), "cost", EmptyDict), "total", 0)

\* per loaded message: its category when it is billable, its cost, its tokens
KindAt(loaded) ==
    [i \in 1..Len(loaded) |->
        IF Billable(loaded[i]) THEN classify_message(loaded[i]) ELSE "not billable"]
CostAt(loaded) == [i \in 1..Len(loaded) |-> CostOf(loaded[i])]
TokensAt(loaded) ==
    [i \in 1..Len(loaded) |->
        IF Billable(loaded[i]) THEN extract_usage(loaded[i]).total_tokens ELSE 0]

\* the billable messages of the categories cats
Of(kind, cats) == {i \in DOMAIN kind : kind[i] \in cats}

RECURSIVE SumOver(_, _)
SumOver(indices, f) ==
    IF indices = {} THEN 0
    ELSE LET i == CHOOSE j \in indices : TRUE
         IN  f[i] + SumOver(indices \ {i}, f)

\* the timestamp the pass reads off a message
PassTimestamp(entry) ==
    IF op = "find_hidden_costs" THEN Get(entry, "timestamp", JNull)
    ELSE EntryTimestamp(entry)

\* the billable messages with a timestamp
Stamped(loaded) ==
    {i \in 1..Len(loaded) : Billable(loaded[i]) /\ Truthy(PassTimestamp(loaded[i]))}

NoCount == [count |-> 0, tokens |-> 0, cost |-> 0]

\* C3: in each pass user_cost + hidden_cost = total_cost, the user cost being
\* the cost of the billable messages classified user_request or response and
\* the hidden cost that of the billable messages of every other category.
C3_UserPlusHidden ==
    Analysed =>
        LET kind == KindAt(Loaded)
            cost == CostAt(Loaded)
        IN  /\ Locals.user_cost + Locals.hidden_cost = Locals.total_cost
            /\ Locals.user_cost = SumOver(Of(kind, {"user_request", "response"}), cost)
            /\ Locals.hidden_cost
                  = SumOver(Of(kind, Categories \ {"user_request", "response"}), cost)

C3_Witness ==
    /\ Analysed
    /\ op = "api_chat"
    /\ Locals.user_cost > 0
    /\ DOMAIN Locals.categories = {"response", "other", "heartbeat"}
    /\ Locals.categories["other"].cost > 0
    /\ Locals.categories["heartbeat"].cost > 0
    /\ Locals.hidden_cost = Locals.categories["other"].cost
                            + Locals.categories["heartbeat"].cost

\* C4: each category's count, tokens and cost are the number, the summed
\* total_tokens and the summed cost.total of the billable messages classified
\* into it, and only billable messages reach the timestamp list.
C4_CategoryTotals ==
    Analysed =>
        LET kind == KindAt(Loaded)
            cost == CostAt(Loaded)
            tokens == TokensAt(Loaded)
        IN  /\ \A c \in Categories :
                LET got == Get(Locals.categories, c, NoCount)
                    indices == Of(kind, {c})
                IN  /\ got.count = Cardinality(indices)
                    /\ got.tokens = SumOver(indices, tokens)
                    /\ got.cost = SumOver(indices, cost)
            /\ Len(Locals.timestamps) = Cardinality(Stamped(Loaded))

\* the user message of 100 tokens, the reply of 50 and the heartbeat of 15
C4_Witness ==
    /\ Analysed
    /\ op = "find_hidden_costs"
    /\ Len(Loaded) = 3
    /\ Locals.categories["user_request"].tokens = 100
    /\ Locals.categories["response"].tokens = 50
    /\ Locals.categories["heartbeat"].tokens = 15
    /\ \E i \in 1..3 : /\ classify_message(Loaded[i]) = "heartbeat"
                       /\ CostOf(Loaded[i]) > 0
                       /\ Locals.hidden_cost = CostOf(Loaded[i])
    /\ Len(Locals.timestamps) = 2

\* C5: the active_days every projection divides by is at least one day.
C5_ActiveDaysAtLeastOne ==
    Analysed => Locals.active_days >= Days(1)

\* an unparseable string beside a seconds timestamp: the floor of one day
C5_Witness ==
    /\ Analysed
    /\ op = "api_hidden_costs"
    /\ Len(Locals.timestamps) = 2
    /\ \E i \in 1..2 : Locals.timestamps[i] = 0
    /\ \E i \in 1..2 : Locals.timestamps[i] = TsBase
    /\ Locals.active_days = Days(1)

\* the valid timestamps of the billable messages, normalized
Normalized ==
    {t \in {normalize_ts(PassTimestamp(Loaded[i])).v : i \in Stamped(Loaded)} :
        t > ValidThreshold}

SpanAbove30 == \E a, b \in Normalized : SpanDays(b - a) > Days(ClampAbove)

\* C6: in each pass a span above 30 days between the least and the greatest
\* normalized timestamp sets active_days to 12, so active_days never
\* exceeds 30.
C6_ClampedAbove30 ==
    Analysed =>
        /\ SpanAbove30 => Locals.active_days = Days(ClampTo)
        /\ Locals.active_days <= Days(ClampAbove)

\* the data directory holds no log file
LogFileNames == {"a.jsonl", "b.jsonl"}
NoLogFiles == ~dir.exists \/ DOMAIN dir.files \cap LogFileNames = {}

\* C10: without a data directory, or without a log file in it, nothing is
\* loaded and nothing raises, and find_hidden_costs reports a total cost of
\* 0, a waste of 0 percent, no cost breakdown and no recommendation.
C10_EmptyInput ==
    (op = "find_hidden_costs" /\ NoLogFiles) =>
        /\ load_all_messages(dir) = Returned(<<>>)
        /\ out.ok
        /\ out.v.summary.total_cost = 0
        /\ out.v.summary.waste_percentage = 0
        /\ DOMAIN out.v.cost_breakdown = {}
        /\ out.v.recommendations = <<>>

\* a directory that holds a file, but no log file
C10_Witness ==
    /\ op = "find_hidden_costs"
    /\ dir.exists
    /\ DOMAIN dir.files = {"notes.txt"}
    /\ out.ok
    /\ out.v.summary.total_cost = 0
    /\ out.v.recommendations = <<>>

----------------------------------------------------------------------------
(* Properties of the overviews                                             *)

\* an overview has run to its end
Overviewed ==
    \/ op = "get_agent_overview" /\ out.ok
    \/ op = "api_overview" /\ out.v.status = 200

OverviewDocument == IF op = "get_agent_overview" THEN out.v ELSE out.v.content

\* the hidden-costs analysis of the same path over the same directory
HiddenPass == IF op = "get_agent_overview" THEN find_hidden_costs(dir) ELSE api_hidden_costs(dir)
HiddenPassDone == HiddenPass.ok /\ (op = "api_overview" => HiddenPass.v.status = 200)
HiddenLocals ==
    IF op = "get_agent_overview" THEN HiddenPass.v.locals ELSE HiddenPass.v.content.locals

\* the sum of one field over the items of file_costs
FileSum(file_costs, field) ==
    SeqSum([i \in 1..Len(file_costs) |-> file_costs[i][field]])

\* the sum of one field over the nine categories
CategorySum(categories, field) ==
    SeqSum([i \in 1..Len(CategoryOrder) |-> categories[CategoryOrder[i]][field]])

\* C11: when the overview and the hidden-costs analysis of the same path both
\* complete over the same log files, the cost, the tokens and the message
\* count summed over the source files equal the cost, the tokens and the
\* count summed over the nine categories, and both equal the number of
\* loaded messages with usage data and the overview's own running totals.
C11_OverviewMatchesHiddenCosts ==
    (Overviewed /\ HiddenPassDone) =>
        LET file_costs == OverviewDocument.locals.file_costs
            categories == HiddenLocals.categories
        IN  /\ FileSum(file_costs, "cost") = CategorySum(categories, "cost")
            /\ FileSum(file_costs, "tokens") = CategorySum(categories, "tokens")
            /\ FileSum(file_costs, "messages") = CategorySum(categories, "count")
            /\ LET loaded == Loaded
                IN  FileSum(file_costs, "messages")
                        = Cardinality({i \in 1..Len(loaded) : Billable(loaded[i])})
            /\ OverviewDocument.locals.total_cost = HiddenLocals.total_cost
            /\ OverviewDocument.locals.total_cost = FileSum(file_costs, "cost")

\* two source files and two categories, and a loaded message without usage
\* data that neither side counts
C11_Witness ==
    /\ Overviewed
    /\ HiddenPassDone
    /\ op = "get_agent_overview"
    /\ Len(Loaded) = 3
    /\ Len(OverviewDocument.locals.file_costs) = 2
    /\ OverviewDocument.total_messages = 2
    /\ HiddenLocals.categories["heartbeat"].count = 1
    /\ HiddenLocals.categories["whatsapp_reconnect"].count = 1
    /\ OverviewDocument.locals.total_cost = 4002 + 7003

\* the files of a sequence of items
FilesOf(items) == {items[i].file : i \in 1..Len(items)}

\* the rounded costs of the list the overview emits, in its order
ListedCosts ==
    IF op = "get_agent_overview"
    THEN [i \in 1..Len(out.v.top_spending_sessions) |->
            out.v.top_spending_sessions[i].cost_usd]
    ELSE [i \in 1..Len(out.v.content.agents) |->
            out.v.content.agents[i].estimated_cost_usd]

\* C17: the top-spending list holds at most 10 source files, in the order of
\* their total cost, greatest first; no file left out costs more than a file
\* listed; and with at most 10 source files carrying usage data all of them
\* are listed.
C17_TopTen ==
    Overviewed =>
        LET file_costs == OverviewDocument.locals.file_costs
            top == OverviewDocument.locals.top
        IN  /\ Len(ListedCosts) <= Top
            /\ Len(ListedCosts) = Len(top)
            /\ \A i \in 1..Len(top) : ListedCosts[i] = Round4(top[i].cost)
            /\ \A i, j \in 1..Len(top) : i < j => ListedCosts[i] >= ListedCosts[j]
            /\ \A i \in 1..Len(top) : \E j \in 1..Len(file_costs) : file_costs[j] = top[i]
            /\ \A i, j \in 1..Len(top) : i < j => top[i].cost >= top[j].cost
            /\ \A j \in 1..Len(file_costs) :
                  file_costs[j].file \notin FilesOf(top) =>
                      \A i \in 1..Len(top) : file_costs[j].cost <= top[i].cost
            /\ Len(file_costs) <= Top => FilesOf(top) = FilesOf(file_costs)

\* eleven source files, the dear one last by name: it is listed first and
\* the cheap tenth file is the one left out
C17_Witness ==
    /\ Overviewed
    /\ op = "api_overview"
    /\ out.v.content.total_files = 11
    /\ Len(out.v.content.agents) = 10
    /\ out.v.content.agents[1].agent = "unknown s11"
    /\ out.v.content.agents[1].estimated_cost_usd = 700
    /\ out.v.content.agents[2].agent = "claude s01"
    /\ out.v.content.agents[10].agent = "claude s09"

----------------------------------------------------------------------------
(* Properties of the recommendations                                       *)

\* the categories that can be recommended against, with their savings_pct
Savings ==
    <<<<"heartbeat", 80>>, <<"memory_resync", 60>>, <<"whatsapp_reconnect", 95>>,
      <<"email_check", 75>>, <<"cost_report", 100>>, <<"cron_task", 50>>>>

\* a hidden-costs report has been produced
Reported ==
    \/ op = "find_hidden_costs" /\ out.ok
    \/ op = "api_hidden_costs" /\ out.v.status = 200

\* its per-category recommendations: all but the cache-read one
PerCategory ==
    SelectSeq(Document.recommendations, LAMBDA r : r.issue # "cache_read")

\* C12: the per-category recommendations are, in the order heartbeat,
\* memory_resync, whatsapp_reconnect, email_check, cost_report, cron_task,
\* one for each of these categories whose accumulated cost is above zero and
\* none for the others, with savings_pct 80, 60, 95, 75, 100 and 50; no
\* recommendation is made for user_request, response or other.
C12_RecommendationOrder ==
    Reported =>
        LET costly == SelectSeq(Savings, LAMBDA s : Locals.categories[s[1]].cost > 0)
            recs == PerCategory
        IN  /\ Len(recs) = Len(costly)
            /\ \A i \in 1..Len(recs) :
                  /\ recs[i].issue = costly[i][1]
                  /\ recs[i].savings_pct = costly[i][2]
            /\ \A i \in 1..Len(Document.recommendations) :
                  Document.recommendations[i].issue
                        \notin {"user_request", "response", "other"}

\* a heartbeat, a dearer reconnect and a cheaper inbox scan: three
\* recommendations, the dearest in the middle
C12_Witness ==
    /\ Reported
    /\ op = "api_hidden_costs"
    /\ Len(Document.recommendations) = 3
    /\ Document.recommendations[1].issue = "heartbeat"
    /\ Document.recommendations[2].issue = "whatsapp_reconnect"
    /\ Document.recommendations[3].issue = "email_check"
    /\ Locals.categories["whatsapp_reconnect"].cost > Locals.categories["heartbeat"].cost
    /\ Locals.categories["heartbeat"].cost > Locals.categories["email_check"].cost
    /\ Document.recommendations[2].savings_pct = 95

----------------------------------------------------------------------------
(* Properties of estimate_task_cost                                        *)

\* the tiers as the claim words them, in its order, the default last
ClaimedTiers ==
    <<[complexity |-> "high", words |-> <<"research", "investigate", "analyze">>],
      [complexity |-> "medium", words |-> <<"email", "draft", "write">>],
      [complexity |-> "low", words |-> <<"check", "status", "list">>],
      [complexity |-> "medium-high", words |-> <<"summarize", "recap">>],
      [complexity |-> "medium", words |-> <<"browse", "search", "find">>],
      [complexity |-> "medium", words |-> <<"">>]>>

\* the tiers with every keyword the tier has
FullTiers ==
    <<[complexity |-> "high",
       words |-> <<"research", "investigate", "analyze", "deep dive", "compare">>],
      [complexity |-> "medium", words |-> <<"email", "draft", "write", "reply", "correo">>],
      [complexity |-> "low", words |-> <<"check", "status", "list", "show", "revisar">>],
      [complexity |-> "medium-high", words |-> <<"summarize", "recap", "resumen">>],
      [complexity |-> "medium", words |-> <<"browse", "search", "find", "buscar">>],
      [complexity |-> "medium", words |-> <<"">>]>>

\* the complexity of the first tier one of whose words occurs in the text
FirstTier(tiers, text) ==
    tiers[CHOOSE i \in 1..Len(tiers) :
            /\ any(tiers[i].words, text)
            /\ \A j \in 1..(i - 1) : ~any(tiers[j].words, text)].complexity

Estimated == op = "estimate_task_cost" /\ out.ok

ResearchIsHigh ==
    In("research", lower(arg.task_description)) =>
        /\ out.v.complexity = "high"
        /\ out.v.locals.mult = 40
        /\ out.v.estimate.estimated_tool_calls = 8

\* C13 as claimed: the complexity is that of the first tier, in the order
\* high (research, investigate, analyze), medium (email, draft, write), low
\* (check, status, list), medium-high (summarize, recap), medium (browse,
\* search, find), default medium, with a keyword in the lowercased
\* description; a description with "research" is high, 4.0 and 8 tool calls.
C13_TierOrder ==
    Estimated =>
        /\ out.v.complexity = FirstTier(ClaimedTiers, lower(arg.task_description))
        /\ ResearchIsHigh

\* C13 amended: the same with the whole keyword sets: high (research,
\* investigate, analyze, deep dive, compare), medium (email, draft, write,
\* reply, correo), low (check, status, list, show, revisar), medium-high
\* (summarize, recap, resumen), medium (browse, search, find, buscar),
\* default medium.
C13_TierOrderFullSets ==
    Estimated =>
        /\ out.v.complexity = FirstTier(FullTiers, lower(arg.task_description))
        /\ ResearchIsHigh

\* "Research" beside "find": both the first and the fifth tier match
C13_Witness ==
    /\ Estimated
    /\ arg.task_description = "find Research"
    /\ out.v.complexity = "high"
    /\ out.v.estimate.estimated_tool_calls = 8
    /\ out.v.estimate.overhead_cost_usd = 1120

PricedModels == {PRICING[i].model : i \in 1..Len(PRICING)}

\* the alternatives listed, as a set of models
ListedModels ==
    {out.v.alternative_models[i].model : i \in 1..Len(out.v.alternative_models)}

\* each alternative carries the cost of the estimated volume at its own
\* rates, and cheapest_option is a listed alternative of least cost
PricedAndCheapest ==
    LET avg == Averages(AssistantCosts(Loaded))
        alternatives == out.v.alternative_models
    IN  /\ \A i \in 1..Len(alternatives) :
              \E n \in 1..Len(PRICING) :
                  /\ PRICING[n].model = alternatives[i].model
                  /\ alternatives[i].cost = AltCost(avg, out.v.locals.mult, PRICING[n])
        /\ \A i, j \in 1..Len(alternatives) :
              i # j => alternatives[i].model # alternatives[j].model
        /\ \E i \in 1..Len(alternatives) : out.v.cheapest_option = alternatives[i]
        /\ \A i \in 1..Len(alternatives) :
              out.v.cheapest_option.cost <= alternatives[i].cost

\* C14 as claimed: alternative_models lists every model of the pricing table
\* other than the target model, each at its own rates, and cheapest_option
\* is the listed alternative of least cost.
C14_EveryOtherModel ==
    Estimated =>
        /\ ListedModels = PricedModels \ {arg.model}
        /\ PricedAndCheapest

\* C14 amended: alternative_models lists every model of the pricing table
\* other than the target model and other than claude-sonnet-4-20250514, which
\* is never listed, each at its own rates, and cheapest_option is the listed
\* alternative of least cost.
C14_EveryOtherModelButAlias ==
    Estimated =>
        /\ ListedModels = PricedModels \ {arg.model, "claude-sonnet-4-20250514"}
        /\ PricedAndCheapest

\* a research task aimed at the dearest model, priced from the defaults
C14_Witness ==
    /\ Estimated
    /\ arg.model = "claude-opus-4-5"
    /\ dir = NoDir
    /\ out.v.locals.mult = 40
    /\ out.v.alternative_models
          = <<[model |-> "claude-sonnet-4-5", cost |-> 2010],
              [model |-> "claude-haiku-4-5", cost |-> 536]>>
    /\ out.v.cheapest_option = [model |-> "claude-haiku-4-5", cost |-> 536]

----------------------------------------------------------------------------
(* Properties of load_all_messages                                         *)

\* the line is not empty, parses as JSON and declares the type "message"
IsMessageLine(line) ==
    /\ line.k = "json"
    /\ line.v.k = "dict"
    /\ "type" \in DOMAIN line.v.v
    /\ line.v.v["type"] = "message"

\* the records of the message lines of one file, stamped with its name
RECURSIVE StampedRecords(_, _)
StampedRecords(name, lines) ==
    IF Len(lines) = 0 THEN <<>>
    ELSE (IF IsMessageLine(Head(lines))
          THEN <<[key \in DOMAIN Head(lines).v.v \cup {"_source_file"} |->
                    IF key = "_source_file" THEN name ELSE Head(lines).v.v[key]]>>
          ELSE <<>>)
         \o StampedRecords(name, Tail(lines))

\* the same over the log files, in the order of their names
ExpectedRecords ==
    IF ~dir.exists THEN <<>>
    ELSE (IF "a.jsonl" \in DOMAIN dir.files
          THEN StampedRecords("a.jsonl", dir.files["a.jsonl"]) ELSE <<>>)
         \o (IF "b.jsonl" \in DOMAIN dir.files
             THEN StampedRecords("b.jsonl", dir.files["b.jsonl"]) ELSE <<>>)

\* C15: whatever the log files hold, load_all_messages returns, and returns
\* exactly the records of the non-empty lines that parse as JSON and declare
\* the type "message", each stamped with its file's name, in file-name order
\* and line order; no line aborts the scan.
C15_ExactlyTheMessageRecords ==
    op = "load_all_messages" => (out.ok /\ out.v = ExpectedRecords)

----------------------------------------------------------------------------
(* Properties of api_chat and of the agent singleton                       *)

Sent(r) == chat[r].pc = "done"

StatusOf(r) == chat[r].out.v.status

SourceOf(r) ==
    IF "source" \in DOMAIN chat[r].out.v.content THEN chat[r].out.v.content.source
    ELSE "none"

\* the aggregation of the fallback raises over the log there is
FallbackRaises ==
    LET loaded == load_all_messages(dir)
    IN  ~loaded.ok \/ ~ChatLoop(loaded.v, ChatStart).ok

\* nothing is raised to the caller; "bedrock" only after a call that
\* succeeded; the fallback only after the agent path failed; an empty
\* message is answered 400 and the agent neither obtained nor invoked
AgentPathGuarded ==
    \A r \in DOMAIN chat :
        /\ chat[r].out.ok
        /\ (Sent(r) /\ SourceOf(r) = "bedrock") =>
                (~chat[r].failed /\ chat[r].agent # "None" /\ chat[r].message # "")
        /\ (chat[r].pc = "fallback" \/ (Sent(r) /\ SourceOf(r) = "fallback")) =>
                (chat[r].failed /\ chat[r].message # "")
        /\ (chat[r].pc \notin {"none", "body"} /\ chat[r].message = "") =>
                /\ Sent(r)
                /\ StatusOf(r) = 400
                /\ chat[r].saw = "nothing"
                /\ chat[r].created = "None"
                /\ chat[r].agent = "None"
                /\ ~chat[r].failed
        /\ (Sent(r) /\ StatusOf(r) = 400) => chat[r].message = ""

Constructed == {chat[r].created : r \in DOMAIN chat} \ {"None"}

\* _agent is None or an agent that has been built; only a request that saw
\* _agent as None builds one; a request that saw an agent builds none and
\* goes on with the stored one; and the agent a request calls has been built
SingletonSafe ==
    /\ agent \in {"None"} \cup Constructed
    /\ \A r \in DOMAIN chat :
          /\ chat[r].created # "None" => chat[r].saw = "None"
          /\ chat[r].saw \notin {"nothing", "None"} =>
                /\ chat[r].created = "None"
                /\ chat[r].pc \notin {"create_agent", "assign"}
                /\ agent # "None"
          /\ (chat[r].pc = "call_agent" \/ (Sent(r) /\ SourceOf(r) = "bedrock")) =>
                chat[r].agent \in Constructed
    /\ Cardinality(Constructed) > 1 =>
          \A r \in DOMAIN chat : chat[r].created # "None" => chat[r].saw = "None"

\* C18: under every interleaving of the chat requests _agent is None or a
\* built agent and, once it is not None, never None again; a get_agent call
\* that finds an agent stored builds none; more than one agent is built only
\* by requests that each saw _agent as None; and every request that calls
\* the agent calls a built one.
C18_SingletonSafe ==
    [](SingletonSafe) /\ [][agent # "None" => agent' # "None"]_vars

\* both requests saw None and built an agent; the first one got the agent of
\* the second from get_agent, and both were answered by the agent
C18_Witness ==
    /\ DOMAIN chat = Requests
    /\ chat[1].created = "Agent1"
    /\ chat[2].created = "Agent2"
    /\ agent = "Agent2"
    /\ chat[1].agent = "Agent2"
    /\ Sent(1) /\ SourceOf(1) = "bedrock"
    /\ Sent(2) /\ SourceOf(2) = "bedrock"

----------------------------------------------------------------------------
(* Properties of the active-days window of server.py                       *)

\* one of the two server passes has run to its end
ServerAnalysed == Analysed /\ op \in {"api_hidden_costs", "api_chat"}

\* the message carries a timestamp, on itself or on its message object
HasTimestamp(entry) ==
    \/ "timestamp" \in DOMAIN entry
    \/ "timestamp" \in DOMAIN Get(entry, "message", EmptyDict)

\* it carries one that is not zero and not empty
HasTruthyTimestamp(entry) ==
    \/ Truthy(Get(entry, "timestamp", JNull))
    \/ Truthy(Get(Get(entry, "message", EmptyDict), "timestamp", JNull))

NoneValid == \A i \in 1..Len(Locals.timestamps) : Locals.timestamps[i] <= ValidThreshold

\* C19 as claimed: when a message with usage data has a timestamp and no
\* normalized timestamp is valid, active_days is 1; the default of 14 is
\* taken exactly when no message with usage data has a timestamp.
C19_OneDayWithoutValid ==
    ServerAnalysed =>
        LET loaded == Loaded
            stamped == {i \in 1..Len(loaded) :
                            Billable(loaded[i]) /\ HasTimestamp(loaded[i])}
        IN  /\ (stamped # {} /\ NoneValid) => Locals.active_days = Days(1)
            /\ stamped = {} => Locals.active_days = Days(DefaultDays)
            /\ stamped = {} <=> Locals.timestamps = <<>>

\* C19 amended: the same of the timestamps that are not zero and not empty,
\* the only ones the passes collect: a message whose timestamp is 0 or ""
\* counts as one without a timestamp.
C19_OneDayWithoutValidTruthy ==
    ServerAnalysed =>
        LET loaded == Loaded
            stamped == {i \in 1..Len(loaded) :
                            Billable(loaded[i]) /\ HasTruthyTimestamp(loaded[i])}
        IN  /\ (stamped # {} /\ NoneValid) => Locals.active_days = Days(1)
            /\ stamped = {} => Locals.active_days = Days(DefaultDays)
            /\ stamped = {} <=> Locals.timestamps = <<>>

\* two messages whose timestamps do not parse, one of them read off the
\* message object: two zeros are collected and the window is one day
C19_Witness ==
    /\ ServerAnalysed
    /\ op = "api_chat"
    /\ Len(Loaded) = 2
    /\ Locals.timestamps = <<0, 0>>
    /\ Locals.total_cost = 3001 + 4002
    /\ Locals.active_days = Days(1)

====
